---- MODULE Spec2Model ----
(***************************************************************************)
(* HGSMI guest/host command channel of HGSMIBase.c.                        *)
(*                                                                         *)
(* Host -> guest direction: VBoxHGSMIProcessHostQueue drains the host's    *)
(* command queue under the fHostCmdProcessing guard, dispatches every      *)
(* dequeued offset and acknowledges it on the host port.                   *)
(* Guest -> host direction: VBoxHGSMIBufferAlloc / Submit / Free on the    *)
(* guest heap, the helpers built on them and the requests of pwn_ioctl.    *)
(*                                                                         *)
(* Sizes and addresses are counted in units of 8 bytes.                    *)
(***************************************************************************)
EXTENDS Integers, Sequences, FiniteSets, TLC

(***************************************************************************)
(* Bounds of the model.                                                    *)
(***************************************************************************)
\* number of commands the host queues in one run
MaxCmds == 2
\* number of execution contexts that may call VBoxHGSMIProcessHostQueue
NumCtx == 2
\* size of the guest heap area, in units
GuestCbHeap == 8
\* largest payload size a pwn_ioctl request asks for, in units
MaxReqSize == 2
\* deepest nesting of testQueryConf inside one call of VBoxQueryConfHGSMIDef
MaxDepth == 2

(***************************************************************************)
(* Program constants.                                                      *)
(***************************************************************************)
\* The program's uint32_t is modelled as a 16-bit word: TLC's integers stop at
\* 2^31 - 1.  UINT32_MAX is the all-ones word, and so is HGSMIOFFSET_VOID (~0).
UINT32_MAX == 65535
HGSMIOFFSET_VOID == UINT32_MAX
VINF_SUCCESS == 0
VERR_INVALID_PARAMETER == -2
VERR_NO_MEMORY == -8
VERR_INTERNAL_ERROR == -225
VERR_INVALID_FUNCTION == -36
HGSMI_CH_HGSMI == 1
HGSMI_CH_VBVA == 2
VERR_NOT_IMPLEMENTED == -12
HGSMI_CC_HOST_FLAGS_LOCATION == 0
VBVA_QUERY_CONF32 == 1
VBVA_INFO_HEAP == 4
VBVA_MOUSE_POINTER_SHAPE == 8
VBVA_VDMA_CMD == 11
VBVA_INFO_CAPS == 12
VBVA_CURSOR_POSITION == 21
VBOX_VBVA_CONF32_HOST_HEAP_SIZE == 1
VBOX_MOUSE_POINTER_VISIBLE == 1
VBOX_MOUSE_POINTER_SHAPE == 4
ENOMEM == 12
EFAULT == 14
\* VBoxHGSMIBufferAlloc's null result
NULL == -1

RT_FAILURE(rc) == rc < 0
RT_SUCCESS(rc) == rc >= 0

\* sizeof(HGSMIBUFFERHEADER) and sizeof(HGSMIBUFFERTAIL), in units
HdrSize == 2
TailSize == 1

(***************************************************************************)
(* The host area (HGSMIAREA areaCtx of the host context): cbArea units at  *)
(* VRAM offset offBase, mapped at local address pu8Base.                   *)
(***************************************************************************)
HostSlot == 4
HostOffBase == 40
HostBase == 100
HostCbArea == MaxCmds * HostSlot

Ctx == 1..NumCtx
Cmd == 1..MaxCmds

VARIABLES
    hostFlags,            \* pfHostFlags->u32HostFlags & HGSMIHOSTFLAGS_COMMANDS_PENDING
    hostQueue,            \* the host's queue of commands not yet read from the port
    nextId,               \* the next command the host will queue
    cmdKind,              \* per command: what the host put at its offset
    fHostCmdProcessing,   \* pCtx->fHostCmdProcessing
    pc,                   \* per context: position in VBoxHGSMIProcessHostQueue
    offset,               \* per context: local 'offset' of hgsmiHostCommandQueryProcess
    ret,                  \* per context: how its last invocation returned
    voidSeen,             \* per context: this invocation has read HGSMIOFFSET_VOID
    dispatched,           \* per command: calls of HGSMIBufferProcess on its offset
    hostAcks,             \* per command: writes of its offset to the host port, by writer
    strayAcks,            \* offsets written to the host port that name no read command
    deferred,             \* payload pointers whose handler owes the completion
    stale,                \* queued commands that were queued when some drain was entered
    heap,                 \* the live allocations of the guest heap (pCtx->heapCtx)
    devOwned,             \* offsets submitted to the device and not yet completed by it
    cOnce,                \* testQueryConf's static cOnce
    testFailed,           \* a self-test of testQueryConf has failed
    testPassed,           \* a self-test of testQueryConf has passed
    last,                 \* the last guest operation: its input, result and port writes
    qpc,                  \* per context: position in an overlapping VBoxQueryConfHGSMIDef
    qdepth,               \* per context: testQueryConf frames on its stack
    qarg,                 \* per context: u32Index, u32DefValue of its outermost call
    qres,                 \* per context: rc and value the last returned frame handed back,
                          \* and the commands its call has submitted so far
    lastComplete,         \* the last VBoxHGSMIHostCmdComplete: its pvMem and its port writes,
                          \* and whether some call so far wrote nothing
    cpu                   \* per context: the processor it runs on

queryVars == <<qpc, qdepth, qarg, qres>>

guestVars == <<heap, devOwned, cOnce, testFailed, testPassed, last, queryVars>>

drainVars == <<hostFlags, hostQueue, nextId, cmdKind, fHostCmdProcessing, pc, offset,
               ret, voidSeen, dispatched, hostAcks, strayAcks, deferred, stale>>

vars == <<drainVars, guestVars, lastComplete, cpu>>

(***************************************************************************)
(* Area Mapper (HGSMIAREA): offset <-> local pointer.                      *)
(***************************************************************************)
HGSMIAreaContainsOffset(off) == off >= HostOffBase /\ off < HostOffBase + HostCbArea

HGSMIAreaContainsPointer(pv) == pv >= HostBase /\ pv < HostBase + HostCbArea

HGSMIOffsetToPointer(off) == HostBase + (off - HostOffBase)

HGSMIPointerToOffset(pv) ==
    IF HGSMIAreaContainsPointer(pv) THEN HostOffBase + (pv - HostBase)
    ELSE HGSMIOFFSET_VOID

HGSMIBufferHeaderFromData(pvMem) == pvMem - HdrSize

HGSMIBufferDataFromPtr(pHdr) == pHdr + HdrSize

(***************************************************************************)
(* What the host queues.  Command i lives in slot i of the host area; a    *)
(* "badoff" command is announced with an offset outside the area, a        *)
(* "nochan" command carries a channel nobody registered.                   *)
(***************************************************************************)
CmdKinds == {"ok", "nochan", "badoff"}

CmdOff(i) ==
    IF cmdKind[i] = "badoff" THEN HostOffBase + HostCbArea + i
    ELSE HostOffBase + (i - 1) * HostSlot

CmdChannel(i) == IF cmdKind[i] = "nochan" THEN HGSMI_CH_HGSMI ELSE HGSMI_CH_VBVA

\* the commands the guest has read from the port
ReadCmds == {i \in Cmd : i < nextId /\ \A k \in 1..Len(hostQueue) : hostQueue[k] # i}

CmdAt(off) == {i \in ReadCmds : CmdOff(i) = off}

\* the payload pointers HGSMIBufferProcess can hand to a handler
HostPayloadPtrs ==
    {HGSMIBufferDataFromPtr(HGSMIOffsetToPointer(HostOffBase + (i - 1) * HostSlot)) : i \in Cmd}

\* pCtx->channels: the channels with a registered handler
RegisteredChannels == {HGSMI_CH_VBVA}

\* the channel in the buffer header found at an offset of the host area
HostHdrChannel(off) ==
    IF CmdAt(off) = {} THEN 0 ELSE CmdChannel(CHOOSE i \in CmdAt(off) : TRUE)

(***************************************************************************)
(* The host port.  A write of an offset is a completion notification; the  *)
(* host counts it for the command it handed out at that offset.            *)
(***************************************************************************)
HGSMINotifyHostCmdComplete(st, offt, by) ==
    IF CmdAt(offt) = {}
    THEN [st EXCEPT !.stray = @ \cup {offt}, !.port = Append(@, offt)]
    ELSE [st EXCEPT !.acks = [i \in Cmd |->
                                 IF i \in CmdAt(offt) THEN Append(@[i], by) ELSE @[i]],
                    !.port = Append(@, offt)]

\* VBoxHGSMIHostCmdComplete taking the payload pointer for the buffer itself
VBoxHGSMIHostCmdComplete_NoHeader(st, pvMem, by) ==
    LET offMem == HGSMIPointerToOffset(pvMem)
    IN IF offMem # HGSMIOFFSET_VOID
       THEN HGSMINotifyHostCmdComplete(st, offMem, by)
       ELSE st

VBoxHGSMIHostCmdComplete(st, pvMem, by) ==
    LET pHdr == HGSMIBufferHeaderFromData(pvMem)
        offMem == HGSMIPointerToOffset(pHdr)
    IN IF offMem # HGSMIOFFSET_VOID
       THEN HGSMINotifyHostCmdComplete(st, offMem, by)
       ELSE st

\* HGSMIBufferProcess: verify the offset, find the channel of the header, call its
\* handler.  The result is the status; the handler's own effect is in hgsmiHostCmdProcess.
HGSMIBufferProcess(offBuffer) ==
    IF ~HGSMIAreaContainsOffset(offBuffer) THEN VERR_INVALID_PARAMETER
    ELSE IF HostHdrChannel(offBuffer) \notin RegisteredChannels THEN VERR_INVALID_FUNCTION
    ELSE VINF_SUCCESS

\* The handler of a channel, called with the payload pointer: it completes the
\* command itself before returning (sync) or keeps the pointer and completes later.
HandlerCall(st, pvData, sync) ==
    IF sync THEN VBoxHGSMIHostCmdComplete(st, pvData, "handler")
    ELSE [st EXCEPT !.deferred = @ \cup {pvData}]

\* port: the offsets the operation at hand has written to the host port
HostSt == [acks |-> hostAcks, stray |-> strayAcks, deferred |-> deferred, port |-> <<>>]

SetHostSt(st) ==
    /\ hostAcks' = st.acks
    /\ strayAcks' = st.stray
    /\ deferred' = st.deferred

\* hgsmiHostCmdProcess without the notification of a failed dispatch
hgsmiHostCmdProcess_NoNotify(offBuffer, sync) ==
    LET rc == HGSMIBufferProcess(offBuffer)
        pvData == HGSMIBufferDataFromPtr(HGSMIOffsetToPointer(offBuffer))
    IN /\ dispatched' = [i \in Cmd |->
                            IF i \in CmdAt(offBuffer) THEN dispatched[i] + 1
                            ELSE dispatched[i]]
       /\ IF RT_FAILURE(rc)
          THEN SetHostSt(HostSt)
          ELSE SetHostSt(HandlerCall(HostSt, pvData, sync))

\* hgsmiHostCmdProcess notifying whatever the dispatch returned
hgsmiHostCmdProcess_AlwaysNotify(offBuffer, sync) ==
    LET pvData == HGSMIBufferDataFromPtr(HGSMIOffsetToPointer(offBuffer))
        st == IF RT_FAILURE(HGSMIBufferProcess(offBuffer)) THEN HostSt
              ELSE HandlerCall(HostSt, pvData, sync)
    IN /\ dispatched' = [i \in Cmd |->
                            IF i \in CmdAt(offBuffer) THEN dispatched[i] + 1
                            ELSE dispatched[i]]
       /\ SetHostSt(HGSMINotifyHostCmdComplete(st, offBuffer, "drain"))

hgsmiHostCmdProcess(offBuffer, sync) ==
    LET rc == HGSMIBufferProcess(offBuffer)
        pvData == HGSMIBufferDataFromPtr(HGSMIOffsetToPointer(offBuffer))
    IN /\ dispatched' = [i \in Cmd |->
                            IF i \in CmdAt(offBuffer) THEN dispatched[i] + 1
                            ELSE dispatched[i]]
       /\ IF RT_FAILURE(rc)
          THEN SetHostSt(HGSMINotifyHostCmdComplete(HostSt, offBuffer, "drain"))
          ELSE SetHostSt(HandlerCall(HostSt, pvData, sync))

\* hgsmiGetHostBuffer: a read of the host port hands out the head of the host's queue,
\* or HGSMIOFFSET_VOID when nothing is queued; the host clears the pending bit when
\* it hands out its last command.
hgsmiGetHostBuffer ==
    IF hostQueue = <<>> THEN HGSMIOFFSET_VOID ELSE CmdOff(Head(hostQueue))

HostAfterRead ==
    IF hostQueue = <<>>
    THEN UNCHANGED <<hostQueue, hostFlags, stale>>
    ELSE /\ hostQueue' = Tail(hostQueue)
         /\ hostFlags' = (Tail(hostQueue) # <<>>)
         /\ stale' = stale \ {Head(hostQueue)}

(***************************************************************************)
(* The guest heap.  Guest pointers are counted from g_vram, as pwn_ioctl   *)
(* does (p = g_vram + req->offset), so a pointer into the heap is also its *)
(* offset into VRAM.  An allocation is a header, the payload and a tail.   *)
(***************************************************************************)
GuestOffBase == 8

\* sizeof(VBVACONF32), in units
CbConf32 == 1

NoData == <<0, 0>>

HGSMIHeapBufferRequiredSize(cbData) == HdrSize + cbData + TailSize

BlockFree(h, o, n) ==
    /\ o >= GuestOffBase
    /\ o + n <= GuestOffBase + GuestCbHeap
    /\ \A a \in h : o + n <= a.hdr \/ a.hdr + HGSMIHeapBufferRequiredSize(a.cb) <= o

\* HGSMIHeapAlloc handing out the lowest block of the area, live or not
HGSMIHeapAlloc_IgnoreLive(h, cbData, u8Ch, u16Op) ==
    LET n == HGSMIHeapBufferRequiredSize(cbData)
    IN IF n > GuestCbHeap THEN NULL ELSE HdrSize + GuestOffBase

\* HGSMIHeapAlloc: the payload pointer of the lowest free block that fits, or NULL
HGSMIHeapAlloc(h, cbData, u8Ch, u16Op) ==
    LET n == HGSMIHeapBufferRequiredSize(cbData)
        fits == {o \in GuestOffBase..(GuestOffBase + GuestCbHeap) : BlockFree(h, o, n)}
    IN IF fits = {} THEN NULL
       ELSE HdrSize + (CHOOSE o \in fits : \A o2 \in fits : o <= o2)

\* the heap once HGSMIHeapAlloc has returned pvBuffer
HeapWith(h, pvBuffer, cbData, u8Ch, u16Op) ==
    h \cup {[hdr |-> pvBuffer - HdrSize, cb |-> cbData, ch |-> u8Ch, op |-> u16Op,
             data |-> NoData]}

\* HGSMIHeapFree: releases the allocation pvBuffer is the payload of; a pointer the
\* heap does not own is reported and nothing is released
HGSMIHeapFree(h, pvBuffer) == {a \in h : a.hdr # pvBuffer - HdrSize}

\* HGSMIHeapBufferOffset: the offset of the header in front of pvBuffer, or
\* HGSMIOFFSET_VOID for a pointer whose header is not in the heap area
HGSMIHeapBufferOffset(pvBuffer) ==
    LET pHdr == pvBuffer - HdrSize
    IN IF pHdr >= GuestOffBase /\ pHdr < GuestOffBase + GuestCbHeap
       THEN pHdr
       ELSE HGSMIOFFSET_VOID

Live(h) == {<<a.hdr, a.cb>> : a \in h}

BufAt(h, off) == {a \in h : a.hdr = off}

\* p->field = v on the payload of pvBuffer
WriteData(h, pvBuffer, d) ==
    {IF a.hdr = pvBuffer - HdrSize THEN [a EXCEPT !.data = d] ELSE a : a \in h}

ReadData(h, pvBuffer) ==
    IF BufAt(h, pvBuffer - HdrSize) = {} THEN NoData
    ELSE (CHOOSE a \in BufAt(h, pvBuffer - HdrSize) : TRUE).data

(***************************************************************************)
(* A guest operation runs on a record g of the guest state: heap,          *)
(* devOwned, cOnce, testFailed, testPassed as the variables; writes, the offsets it *)
(* wrote to the guest port; sent, what the host found at each of them; log, *)
(* its allocations, payload stores and loads, port writes and frees in the  *)
(* order it made them; replies and async, how the host will react.          *)
(***************************************************************************)
NoReply == -1
ConfValues == {0, UINT32_MAX}
HostReplies == {NoReply} \cup ConfValues

\* the status codes the host writes into the result field of a command
HostRcs == {NoReply, VINF_SUCCESS, VERR_INVALID_PARAMETER}

\* the host cursor coordinate the host writes into a cursor position command
CursorReplies == {NoReply, 7}

\* the commands whose payload the host answers in place
Responds(a) ==
    /\ a.ch = HGSMI_CH_VBVA
    /\ a.op \in {VBVA_QUERY_CONF32, VBVA_INFO_CAPS, VBVA_MOUSE_POINTER_SHAPE,
                 VBVA_CURSOR_POSITION}

\* the payload of a once the host has answered it with r: the value field of a
\* configuration query, x and y of a cursor position, the result field of the
\* others; a host that does not handle the command leaves the payload as it is
HostAnswer(a, r) ==
    IF r = NoReply THEN a.data
    ELSE IF a.op = VBVA_QUERY_CONF32 THEN <<a.data[1], r>>
    ELSE IF a.op = VBVA_CURSOR_POSITION THEN [a.data EXCEPT ![2] = r, ![3] = r]
    ELSE [a.data EXCEPT ![1] = r]

\* The device, on a write of off to the guest port.  It answers a query-style
\* command in place before the write returns; it may keep a VDMA command and
\* complete it later.
HostOnSubmit(g, off) ==
    IF BufAt(g.heap, off) = {}
    THEN [g EXCEPT !.sent = Append(@, [ch |-> 0, op |-> 0, data |-> NoData,
                                       ans |-> NoData])]
    ELSE LET a == CHOOSE b \in BufAt(g.heap, off) : TRUE
             ans == IF Responds(a) THEN HostAnswer(a, Head(g.replies)) ELSE a.data
             g1 == [g EXCEPT !.sent = Append(@, [ch |-> a.ch, op |-> a.op,
                                                 data |-> a.data, ans |-> ans])]
         IN IF Responds(a)
            THEN [g1 EXCEPT !.replies = Tail(@), !.heap = WriteData(@, off + HdrSize, ans)]
            ELSE IF a.op = VBVA_VDMA_CMD /\ g.async
            THEN [g1 EXCEPT !.devOwned = @ \cup {off}]
            ELSE g1

VBoxHGSMIBufferAlloc(g, cbData, u8Ch, u16Op) ==
    LET p == HGSMIHeapAlloc(g.heap, cbData, u8Ch, u16Op)
    IN IF p = NULL THEN [g |-> g, p |-> NULL]
       ELSE [g |-> [g EXCEPT !.heap = HeapWith(@, p, cbData, u8Ch, u16Op),
                             !.log = Append(@, <<"alloc", p>>)],
             p |-> p]

\* the guest assigns the request fields of the payload of pvBuffer
Store(g, pvBuffer, d) ==
    [g EXCEPT !.heap = WriteData(@, pvBuffer, d), !.log = Append(@, <<"store", pvBuffer>>)]

\* the guest reads a field of the payload of pvBuffer
Loaded(g, pvBuffer) == [g EXCEPT !.log = Append(@, <<"load", pvBuffer>>)]

\* VBoxVideoCmnPortWriteUlong(pCtx->port, offBuffer)
PortWrite(g, offBuffer) ==
    HostOnSubmit([g EXCEPT !.writes = Append(@, offBuffer),
                           !.log = Append(@, <<"port", offBuffer>>)], offBuffer)

\* VBoxHGSMIBufferSubmit without the check of the offset
VBoxHGSMIBufferSubmit_NoCheck(g, pvBuffer) ==
    LET offBuffer == HGSMIHeapBufferOffset(pvBuffer)
    IN [g |-> PortWrite(g, offBuffer), rc |-> VINF_SUCCESS]

VBoxHGSMIBufferSubmit(g, pvBuffer) ==
    LET offBuffer == HGSMIHeapBufferOffset(pvBuffer)
    IN IF offBuffer # HGSMIOFFSET_VOID
       THEN [g |-> PortWrite(g, offBuffer), rc |-> VINF_SUCCESS]
       ELSE [g |-> g, rc |-> VERR_INVALID_PARAMETER]

VBoxHGSMIBufferFree(g, pvBuffer) ==
    [g EXCEPT !.heap = HGSMIHeapFree(@, pvBuffer), !.log = Append(@, <<"free", pvBuffer>>)]

RECURSIVE VBoxQueryConfHGSMIDef(_, _, _, _)

\* VBoxQueryConfHGSMI(pCtx, u32Index, pulValue); ulValue is *pulValue before the call
VBoxQueryConfHGSMI(g, u32Index, ulValue) ==
    VBoxQueryConfHGSMIDef(g, u32Index, UINT32_MAX, ulValue)

\* testQueryConf leaving cOnce set when the test fails
testQueryConf_NoReset(g) ==
    IF g.cOnce THEN [g |-> g, rc |-> VINF_SUCCESS]
    ELSE LET r == VBoxQueryConfHGSMI([g EXCEPT !.cOnce = TRUE], UINT32_MAX, 0)
         IN IF RT_SUCCESS(r.rc) /\ r.value = UINT32_MAX
            THEN [g |-> [r.g EXCEPT !.testPassed = TRUE], rc |-> VINF_SUCCESS]
            ELSE [g |-> [r.g EXCEPT !.testFailed = TRUE],
                  rc |-> IF RT_FAILURE(r.rc) THEN r.rc ELSE VERR_INTERNAL_ERROR]

\* testQueryConf taking any successful answer for a pass
testQueryConf_AcceptAny(g) ==
    IF g.cOnce THEN [g |-> g, rc |-> VINF_SUCCESS]
    ELSE LET r == VBoxQueryConfHGSMI([g EXCEPT !.cOnce = TRUE], UINT32_MAX, 0)
         IN IF RT_SUCCESS(r.rc)
            THEN [g |-> [r.g EXCEPT !.testPassed = TRUE], rc |-> VINF_SUCCESS]
            ELSE [g |-> [r.g EXCEPT !.cOnce = FALSE, !.testFailed = TRUE], rc |-> r.rc]

\* testQueryConf clearing cOnce after a test that passed as well
testQueryConf_ResetAlways(g) ==
    IF g.cOnce THEN [g |-> g, rc |-> VINF_SUCCESS]
    ELSE LET r == VBoxQueryConfHGSMI([g EXCEPT !.cOnce = TRUE], UINT32_MAX, 0)
         IN IF RT_SUCCESS(r.rc) /\ r.value = UINT32_MAX
            THEN [g |-> [r.g EXCEPT !.cOnce = FALSE, !.testPassed = TRUE],
                  rc |-> VINF_SUCCESS]
            ELSE [g |-> [r.g EXCEPT !.cOnce = FALSE, !.testFailed = TRUE],
                  rc |-> IF RT_FAILURE(r.rc) THEN r.rc ELSE VERR_INTERNAL_ERROR]

testQueryConf(g) ==
    IF g.cOnce THEN [g |-> g, rc |-> VINF_SUCCESS]
    ELSE LET r == VBoxQueryConfHGSMI([g EXCEPT !.cOnce = TRUE], UINT32_MAX, 0)
         IN IF RT_SUCCESS(r.rc) /\ r.value = UINT32_MAX
            THEN [g |-> [r.g EXCEPT !.testPassed = TRUE], rc |-> VINF_SUCCESS]
            ELSE [g |-> [r.g EXCEPT !.cOnce = FALSE, !.testFailed = TRUE],
                  rc |-> IF RT_FAILURE(r.rc) THEN r.rc ELSE VERR_INTERNAL_ERROR]

\* VBoxQueryConfHGSMIDef storing the default, not the field as it stands after the submit
VBoxQueryConfHGSMIDef_StaleValue(g, u32Index, u32DefValue, ulValue) ==
    LET t == testQueryConf(g)
        a == VBoxHGSMIBufferAlloc(t.g, CbConf32, HGSMI_CH_VBVA, VBVA_QUERY_CONF32)
        s == VBoxHGSMIBufferSubmit(Store(a.g, a.p, <<u32Index, u32DefValue>>), a.p)
    IN IF RT_FAILURE(t.rc) THEN [g |-> t.g, rc |-> t.rc, value |-> ulValue]
       ELSE IF a.p = NULL THEN [g |-> a.g, rc |-> VERR_NO_MEMORY, value |-> ulValue]
       ELSE IF RT_SUCCESS(s.rc)
       THEN [g |-> VBoxHGSMIBufferFree(Loaded(s.g, a.p), a.p),
             rc |-> s.rc,
             value |-> u32DefValue]
       ELSE [g |-> VBoxHGSMIBufferFree(s.g, a.p), rc |-> s.rc, value |-> ulValue]

VBoxQueryConfHGSMIDef(g, u32Index, u32DefValue, ulValue) ==
    LET t == testQueryConf(g)
        a == VBoxHGSMIBufferAlloc(t.g, CbConf32, HGSMI_CH_VBVA, VBVA_QUERY_CONF32)
        s == VBoxHGSMIBufferSubmit(Store(a.g, a.p, <<u32Index, u32DefValue>>), a.p)
    IN IF RT_FAILURE(t.rc) THEN [g |-> t.g, rc |-> t.rc, value |-> ulValue]
       ELSE IF a.p = NULL THEN [g |-> a.g, rc |-> VERR_NO_MEMORY, value |-> ulValue]
       ELSE IF RT_SUCCESS(s.rc)
       THEN [g |-> VBoxHGSMIBufferFree(Loaded(s.g, a.p), a.p),
             rc |-> s.rc,
             value |-> ReadData(s.g.heap, a.p)[2]]
       ELSE [g |-> VBoxHGSMIBufferFree(s.g, a.p), rc |-> s.rc, value |-> ulValue]

(***************************************************************************)
(* The setup and pointer helpers.                                          *)
(***************************************************************************)
\* sizeof(HGSMIBUFFERLOCATION), sizeof(HGSMIHOSTFLAGS), sizeof(VBVACAPS),
\* sizeof(VBVAINFOHEAP) and sizeof(VBVACURSORPOSITION), in units
CbLocation == 1
CbHostFlags == 2
CbCaps == 1
CbInfoHeap == 1
CbCursorPosition == 2

\* sizeof(VBVAMOUSEPOINTERSHAPE), in bytes, and the bytes of a unit
CbShapeBytes == 28
UnitBytes == 8

\* uint32_t arithmetic on the model's word
Word(x) == x % (UINT32_MAX + 1)

\* a size in bytes as the units the heap is counted in
Units(cb) == (cb + UnitBytes - 1) \div UnitBytes

vboxHGSMIReportFlagsLocation(g, offLocation) ==
    LET a == VBoxHGSMIBufferAlloc(g, CbLocation, HGSMI_CH_HGSMI,
                                  HGSMI_CC_HOST_FLAGS_LOCATION)
        s == VBoxHGSMIBufferSubmit(Store(a.g, a.p, <<offLocation, CbHostFlags>>), a.p)
    IN IF a.p = NULL THEN [g |-> a.g, rc |-> VERR_NO_MEMORY]
       ELSE [g |-> VBoxHGSMIBufferFree(s.g, a.p), rc |-> s.rc]

\* vboxHGSMISendCapsInfo with the result field pre-set to success
vboxHGSMISendCapsInfo_PresetSuccess(g, fCaps) ==
    LET a == VBoxHGSMIBufferAlloc(g, CbCaps, HGSMI_CH_VBVA, VBVA_INFO_CAPS)
        s == VBoxHGSMIBufferSubmit(Store(a.g, a.p, <<VINF_SUCCESS, fCaps>>), a.p)
    IN IF a.p = NULL THEN [g |-> a.g, rc |-> VERR_NO_MEMORY]
       ELSE IF RT_SUCCESS(s.rc)
       THEN [g |-> VBoxHGSMIBufferFree(Loaded(s.g, a.p), a.p),
             rc |-> ReadData(s.g.heap, a.p)[1]]
       ELSE [g |-> VBoxHGSMIBufferFree(s.g, a.p), rc |-> s.rc]

\* vboxHGSMISendCapsInfo freeing the buffer only when the host reported success
vboxHGSMISendCapsInfo_LeakOnFailure(g, fCaps) ==
    LET a == VBoxHGSMIBufferAlloc(g, CbCaps, HGSMI_CH_VBVA, VBVA_INFO_CAPS)
        s == VBoxHGSMIBufferSubmit(Store(a.g, a.p, <<VERR_NOT_IMPLEMENTED, fCaps>>), a.p)
        rc == ReadData(s.g.heap, a.p)[1]
    IN IF a.p = NULL THEN [g |-> a.g, rc |-> VERR_NO_MEMORY]
       ELSE IF RT_SUCCESS(s.rc)
       THEN [g |-> IF RT_SUCCESS(rc) THEN VBoxHGSMIBufferFree(Loaded(s.g, a.p), a.p)
                   ELSE Loaded(s.g, a.p),
             rc |-> rc]
       ELSE [g |-> VBoxHGSMIBufferFree(s.g, a.p), rc |-> s.rc]

vboxHGSMISendCapsInfo(g, fCaps) ==
    LET a == VBoxHGSMIBufferAlloc(g, CbCaps, HGSMI_CH_VBVA, VBVA_INFO_CAPS)
        s == VBoxHGSMIBufferSubmit(Store(a.g, a.p, <<VERR_NOT_IMPLEMENTED, fCaps>>), a.p)
    IN IF a.p = NULL THEN [g |-> a.g, rc |-> VERR_NO_MEMORY]
       ELSE IF RT_SUCCESS(s.rc)
       THEN [g |-> VBoxHGSMIBufferFree(Loaded(s.g, a.p), a.p),
             rc |-> ReadData(s.g.heap, a.p)[1]]
       ELSE [g |-> VBoxHGSMIBufferFree(s.g, a.p), rc |-> s.rc]

vboxHGSMIReportHostArea(g, u32AreaOffset, u32AreaSize) ==
    LET a == VBoxHGSMIBufferAlloc(g, CbInfoHeap, HGSMI_CH_VBVA, VBVA_INFO_HEAP)
        s == VBoxHGSMIBufferSubmit(Store(a.g, a.p, <<u32AreaOffset, u32AreaSize>>), a.p)
    IN IF a.p = NULL THEN [g |-> a.g, rc |-> VERR_NO_MEMORY]
       ELSE [g |-> VBoxHGSMIBufferFree(s.g, a.p), rc |-> s.rc]

\* VBoxHGSMISendHostCtxInfo going on to the next command whatever the last returned
VBoxHGSMISendHostCtxInfo_Unconditional(g, offVRAMFlagsLocation, fCaps, offVRAMHostArea, cbHostArea) ==
    CHOOSE r3 \in
        {vboxHGSMIReportHostArea(r2.g, offVRAMHostArea, cbHostArea) :
           r2 \in {IF fCaps # 0 THEN vboxHGSMISendCapsInfo(r1.g, fCaps) ELSE r1 :
                     r1 \in {vboxHGSMIReportFlagsLocation(g, offVRAMFlagsLocation)}}} :
        TRUE

\* r1, r2 and r3 are rc and the guest state after the first, second and third step
VBoxHGSMISendHostCtxInfo(g, offVRAMFlagsLocation, fCaps, offVRAMHostArea, cbHostArea) ==
    CHOOSE r3 \in
        {IF RT_SUCCESS(r2.rc)
         THEN vboxHGSMIReportHostArea(r2.g, offVRAMHostArea, cbHostArea)
         ELSE r2 :
           r2 \in {IF RT_SUCCESS(r1.rc) /\ fCaps # 0
                    THEN vboxHGSMISendCapsInfo(r1.g, fCaps)
                    ELSE r1 :
                     r1 \in {vboxHGSMIReportFlagsLocation(g, offVRAMFlagsLocation)}}} :
        TRUE

\* fFlags & VBOX_MOUSE_POINTER_SHAPE
HasShape(fFlags) == (fFlags \div VBOX_MOUSE_POINTER_SHAPE) % 2 = 1

\* size of the pointer data: sizeof (AND mask) + sizeof (XOR mask), in bytes
ShapeCbData(cWidth, cHeight) ==
    LET cbAnd == Word(Word(Word(cWidth + 7) \div 8) * cHeight)
        cbAnd3 == Word(cbAnd + 3)
    IN Word((cbAnd3 - (cbAnd3 % 4)) + Word(Word(cWidth * 4) * cHeight))

\* a height for which, at width 1, sizeof(VBVAMOUSEPOINTERSHAPE) + cbData
\* exceeds the word: cbData is UINT32_MAX + 1 - CbShapeFixed
WrapHeight == 13102

\* the bytes of the six fields in front of au8Data (lines 1053-1058)
CbShapeFixed == 24

\* the fields of VBVAMOUSEPOINTERSHAPE and the number of bytes copied to au8Data
ShapeFields(fFlags, cHotX, cHotY, cWidth, cHeight, cbCopied) ==
    <<VINF_SUCCESS, fFlags, cHotX, cHotY, cWidth, cHeight, cbCopied>>

\* VBoxHGSMIUpdatePointerShape copying the pixels once the command is submitted
VBoxHGSMIUpdatePointerShape_CopyAfterSubmit(g, fFlags0, cHotX, cHotY, cWidth, cHeight, cbLength) ==
    LET cbData == IF HasShape(fFlags0) THEN ShapeCbData(cWidth, cHeight) ELSE 0
        fFlags == IF HasShape(fFlags0) /\ fFlags0 % 2 = 0
                  THEN fFlags0 + VBOX_MOUSE_POINTER_VISIBLE ELSE fFlags0
        a == VBoxHGSMIBufferAlloc(g, Units(Word(CbShapeBytes + cbData)), HGSMI_CH_VBVA,
                                  VBVA_MOUSE_POINTER_SHAPE)
        g1 == Store(a.g, a.p, ShapeFields(fFlags, cHotX, cHotY, cWidth, cHeight, 0))
        s == VBoxHGSMIBufferSubmit(g1, a.p)
        g2 == IF HasShape(fFlags)
              THEN Store(s.g, a.p, [ReadData(s.g.heap, a.p) EXCEPT ![7] = cbData])
              ELSE s.g
    IN IF cbData > cbLength
       THEN [g |-> g, rc |-> VERR_INVALID_PARAMETER, cbAlloc |-> 0, cbCopied |-> 0]
       ELSE IF a.p = NULL
       THEN [g |-> a.g, rc |-> VERR_NO_MEMORY, cbAlloc |-> 0, cbCopied |-> 0]
       ELSE IF RT_SUCCESS(s.rc)
       THEN [g |-> VBoxHGSMIBufferFree(Loaded(g2, a.p), a.p),
             rc |-> ReadData(g2.heap, a.p)[1],
             cbAlloc |-> Word(CbShapeBytes + cbData),
             cbCopied |-> ReadData(g2.heap, a.p)[7]]
       ELSE [g |-> VBoxHGSMIBufferFree(g2, a.p), rc |-> s.rc,
             cbAlloc |-> Word(CbShapeBytes + cbData),
             cbCopied |-> ReadData(g2.heap, a.p)[7]]

VBoxHGSMIUpdatePointerShape(g, fFlags0, cHotX, cHotY, cWidth, cHeight, cbLength) ==
    LET cbData == IF HasShape(fFlags0) THEN ShapeCbData(cWidth, cHeight) ELSE 0
        fFlags == IF HasShape(fFlags0) /\ fFlags0 % 2 = 0
                  THEN fFlags0 + VBOX_MOUSE_POINTER_VISIBLE ELSE fFlags0
        a == VBoxHGSMIBufferAlloc(g, Units(Word(CbShapeBytes + cbData)), HGSMI_CH_VBVA,
                                  VBVA_MOUSE_POINTER_SHAPE)
        g1 == Store(a.g, a.p, ShapeFields(fFlags, cHotX, cHotY, cWidth, cHeight, 0))
        g2 == IF HasShape(fFlags)
              THEN Store(g1, a.p,
                         ShapeFields(fFlags, cHotX, cHotY, cWidth, cHeight, cbData))
              ELSE g1
        s == VBoxHGSMIBufferSubmit(g2, a.p)
    IN IF cbData > cbLength
       THEN [g |-> g, rc |-> VERR_INVALID_PARAMETER, cbAlloc |-> 0, cbCopied |-> 0]
       ELSE IF a.p = NULL
       THEN [g |-> a.g, rc |-> VERR_NO_MEMORY, cbAlloc |-> 0, cbCopied |-> 0]
       ELSE IF RT_SUCCESS(s.rc)
       THEN [g |-> VBoxHGSMIBufferFree(Loaded(s.g, a.p), a.p),
             rc |-> ReadData(s.g.heap, a.p)[1],
             cbAlloc |-> Word(CbShapeBytes + cbData),
             cbCopied |-> ReadData(g2.heap, a.p)[7]]
       ELSE [g |-> VBoxHGSMIBufferFree(s.g, a.p), rc |-> s.rc,
             cbAlloc |-> Word(CbShapeBytes + cbData),
             cbCopied |-> ReadData(g2.heap, a.p)[7]]

\* VBoxHGSMICursorPosition storing the host's answer whatever the submit returned
\* and whether or not the caller gave pxHost and pyHost
VBoxHGSMICursorPosition_StoreAlways(g, fReportPosition, x, y, hasPx, hasPy, xHost, yHost) ==
    LET a == VBoxHGSMIBufferAlloc(g, CbCursorPosition, HGSMI_CH_VBVA,
                                  VBVA_CURSOR_POSITION)
        s == VBoxHGSMIBufferSubmit(
                 Store(a.g, a.p, <<IF fReportPosition THEN 1 ELSE 0, x, y>>), a.p)
        d == ReadData(s.g.heap, a.p)
    IN IF a.p = NULL
       THEN [g |-> a.g, rc |-> VERR_NO_MEMORY, xHost |-> xHost, yHost |-> yHost]
       ELSE [g |-> VBoxHGSMIBufferFree(Loaded(Loaded(s.g, a.p), a.p), a.p), rc |-> s.rc,
             xHost |-> d[2], yHost |-> d[3]]

\* VBoxHGSMICursorPosition; hasPx and hasPy say whether pxHost and pyHost are given,
\* xHost and yHost are what they point to before the call
VBoxHGSMICursorPosition(g, fReportPosition, x, y, hasPx, hasPy, xHost, yHost) ==
    LET a == VBoxHGSMIBufferAlloc(g, CbCursorPosition, HGSMI_CH_VBVA,
                                  VBVA_CURSOR_POSITION)
        s == VBoxHGSMIBufferSubmit(
                 Store(a.g, a.p, <<IF fReportPosition THEN 1 ELSE 0, x, y>>), a.p)
        d == ReadData(s.g.heap, a.p)
        gx == IF hasPx THEN Loaded(s.g, a.p) ELSE s.g
        gy == IF hasPy THEN Loaded(gx, a.p) ELSE gx
    IN IF a.p = NULL
       THEN [g |-> a.g, rc |-> VERR_NO_MEMORY, xHost |-> xHost, yHost |-> yHost]
       ELSE IF RT_SUCCESS(s.rc)
       THEN [g |-> VBoxHGSMIBufferFree(gy, a.p), rc |-> s.rc,
             xHost |-> IF hasPx THEN d[2] ELSE xHost,
             yHost |-> IF hasPy THEN d[3] ELSE yHost]
       ELSE [g |-> VBoxHGSMIBufferFree(s.g, a.p), rc |-> s.rc,
             xHost |-> xHost, yHost |-> yHost]

\* VBVA_ADAPTER_INFORMATION_SIZE and the 4096 bytes the host area is rounded up
\* to, scaled to the model's word
AdapterInfoSize == 128
AreaAlign == 8

\* VBoxHGSMIGetHostAreaMapping without the rounding of line 852
VBoxHGSMIGetHostAreaMapping_NoRound(g, cbVRAM, offVRAMBaseMapping) ==
    CHOOSE m \in
        {LET cbMax0 == cbVRAM \div 4
             cbMax == IF cbMax0 >= AdapterInfoSize THEN cbMax0 - AdapterInfoSize
                      ELSE cbMax0
             cbHostArea == IF q.value > cbMax THEN cbMax ELSE q.value
         IN IF q.value # 0
            THEN [g |-> q.g, rc |-> q.rc, cbHostArea |-> cbHostArea,
                  offVRAMHostArea |-> Word(offVRAMBaseMapping - cbHostArea)]
            ELSE [g |-> q.g, rc |-> q.rc, cbHostArea |-> 0,
                  offVRAMHostArea |-> offVRAMBaseMapping] :
           q \in {VBoxQueryConfHGSMI(g, VBOX_VBVA_CONF32_HOST_HEAP_SIZE, 0)}} :
        TRUE

\* VBoxHGSMIGetHostAreaMapping; rc is the status of its query, which it does not
\* look at
VBoxHGSMIGetHostAreaMapping(g, cbVRAM, offVRAMBaseMapping) ==
    CHOOSE m \in
        {LET cbMax0 == cbVRAM \div 4
             cbMax == IF cbMax0 >= AdapterInfoSize THEN cbMax0 - AdapterInfoSize
                      ELSE cbMax0
             cbCapped == IF q.value > cbMax THEN cbMax ELSE q.value
             cbUp == Word(cbCapped + (AreaAlign - 1))
             cbHostArea == cbUp - (cbUp % AreaAlign)
         IN IF q.value # 0
            THEN [g |-> q.g, rc |-> q.rc, cbHostArea |-> cbHostArea,
                  offVRAMHostArea |-> Word(offVRAMBaseMapping - cbHostArea)]
            ELSE [g |-> q.g, rc |-> q.rc, cbHostArea |-> 0,
                  offVRAMHostArea |-> offVRAMBaseMapping] :
           q \in {VBoxQueryConfHGSMI(g, VBOX_VBVA_CONF32_HOST_HEAP_SIZE, 0)}} :
        TRUE

NoOp ==
    [op |-> "none", arg |-> <<>>, rc |-> 0, writes |-> <<>>, sent |-> <<>>, log |-> <<>>,
     value |-> 0]

(***************************************************************************)
(* VBoxHGSMIProcessHostQueue, one step per access to shared state.         *)
(***************************************************************************)
InitState ==
    /\ hostFlags = FALSE
    /\ hostQueue = <<>>
    /\ nextId = 1
    /\ cmdKind = [i \in Cmd |-> "none"]
    /\ fHostCmdProcessing = FALSE
    /\ pc = [t \in Ctx |-> "idle"]
    /\ offset = [t \in Ctx |-> HGSMIOFFSET_VOID]
    /\ ret = [t \in Ctx |-> "none"]
    /\ voidSeen = [t \in Ctx |-> FALSE]
    /\ dispatched = [i \in Cmd |-> 0]
    /\ hostAcks = [i \in Cmd |-> <<>>]
    /\ strayAcks = {}
    /\ deferred = {}
    /\ stale = {}
    /\ heap = {}
    /\ devOwned = {}
    /\ cOnce = FALSE
    /\ testFailed = FALSE
    /\ testPassed = FALSE
    /\ last = NoOp
    /\ qpc = [t \in Ctx |-> "idle"]
    /\ qdepth = [t \in Ctx |-> 0]
    /\ qarg = [t \in Ctx |-> <<0, 0>>]
    /\ qres = [t \in Ctx |-> [rc |-> VINF_SUCCESS, value |-> 0, cmds |-> 0]]
    /\ lastComplete = [pvMem |-> NULL, port |-> <<>>, silent |-> FALSE]

\* every context on a processor of its own
Init == InitState /\ cpu = [t \in Ctx |-> t]

\* a context enters VBoxHGSMIProcessHostQueue
DrainCall(t) ==
    /\ pc[t] = "idle"
    /\ pc' = [pc EXCEPT ![t] = "enter"]
    /\ ret' = [ret EXCEPT ![t] = "none"]
    /\ voidSeen' = [voidSeen EXCEPT ![t] = FALSE]
    /\ stale' = stale \cup {hostQueue[k] : k \in 1..Len(hostQueue)}
    /\ UNCHANGED <<guestVars, lastComplete, cpu>>
    /\ UNCHANGED <<hostFlags, hostQueue, nextId, cmdKind, fHostCmdProcessing, offset,
                   dispatched, hostAcks, strayAcks, deferred>>

\* the loop as do { } while: the first pass does not look at the pending bit
DrainCheck_DoWhile(t) ==
    /\ pc[t] \in {"enter", "check"}
    /\ IF hostFlags \/ pc[t] = "enter"
       THEN /\ pc' = [pc EXCEPT ![t] = "cas"]
            /\ ret' = ret
       ELSE /\ pc' = [pc EXCEPT ![t] = "idle"]
            /\ ret' = [ret EXCEPT ![t] = "drained"]
    /\ UNCHANGED <<guestVars, lastComplete, cpu>>
    /\ UNCHANGED <<hostFlags, hostQueue, nextId, cmdKind, fHostCmdProcessing, offset,
                   voidSeen, dispatched, hostAcks, strayAcks, deferred, stale>>

\* while (pCtx->pfHostFlags->u32HostFlags & HGSMIHOSTFLAGS_COMMANDS_PENDING)
DrainCheck(t) ==
    /\ pc[t] \in {"enter", "check"}
    /\ IF hostFlags
       THEN /\ pc' = [pc EXCEPT ![t] = "cas"]
            /\ ret' = ret
       ELSE /\ pc' = [pc EXCEPT ![t] = "idle"]
            /\ ret' = [ret EXCEPT ![t] = IF pc[t] = "enter" THEN "notPending" ELSE "drained"]
    /\ UNCHANGED <<guestVars, lastComplete, cpu>>
    /\ UNCHANGED <<hostFlags, hostQueue, nextId, cmdKind, fHostCmdProcessing, offset,
                   voidSeen, dispatched, hostAcks, strayAcks, deferred, stale>>

\* a drain that waits for the guard: it tries the exchange again until it succeeds
DrainCas_Spin(t) ==
    /\ pc[t] = "cas"
    /\ IF fHostCmdProcessing = FALSE
       THEN /\ fHostCmdProcessing' = TRUE
            /\ pc' = [pc EXCEPT ![t] = "read"]
       ELSE /\ fHostCmdProcessing' = fHostCmdProcessing
            /\ pc' = pc
    /\ ret' = ret
    /\ UNCHANGED <<guestVars, lastComplete, cpu>>
    /\ UNCHANGED <<hostFlags, hostQueue, nextId, cmdKind, offset, voidSeen, dispatched,
                   hostAcks, strayAcks, deferred, stale>>

\* the guard set with a plain write, the result of the exchange not looked at
DrainCas_IgnoreResult(t) ==
    /\ pc[t] = "cas"
    /\ fHostCmdProcessing' = TRUE
    /\ pc' = [pc EXCEPT ![t] = "read"]
    /\ UNCHANGED <<guestVars, lastComplete, cpu>>
    /\ UNCHANGED <<hostFlags, hostQueue, nextId, cmdKind, offset, ret, voidSeen, dispatched,
                   hostAcks, strayAcks, deferred, stale>>

\* the port read before the guard is tried: a context that backs off drops what it read
DrainCas_ReadFirst(t) ==
    /\ pc[t] = "cas"
    /\ IF fHostCmdProcessing = FALSE
       THEN /\ fHostCmdProcessing' = TRUE
            /\ pc' = [pc EXCEPT ![t] = "read"]
            /\ ret' = ret
            /\ UNCHANGED <<hostFlags, hostQueue, stale>>
       ELSE /\ fHostCmdProcessing' = fHostCmdProcessing
            /\ pc' = [pc EXCEPT ![t] = "idle"]
            /\ ret' = [ret EXCEPT ![t] = "busy"]
            /\ HostAfterRead
    /\ UNCHANGED <<guestVars, lastComplete, cpu>>
    /\ UNCHANGED <<nextId, cmdKind, offset, voidSeen, dispatched,
                   hostAcks, strayAcks, deferred>>

\* if (!ASMAtomicCmpXchgBool(&pCtx->fHostCmdProcessing, true, false)) return;
DrainCas(t) ==
    /\ pc[t] = "cas"
    /\ IF fHostCmdProcessing = FALSE
       THEN /\ fHostCmdProcessing' = TRUE
            /\ pc' = [pc EXCEPT ![t] = "read"]
            /\ ret' = ret
       ELSE /\ fHostCmdProcessing' = fHostCmdProcessing
            /\ pc' = [pc EXCEPT ![t] = "idle"]
            /\ ret' = [ret EXCEPT ![t] = "busy"]
    /\ UNCHANGED <<guestVars, lastComplete, cpu>>
    /\ UNCHANGED <<hostFlags, hostQueue, nextId, cmdKind, offset, voidSeen, dispatched,
                   hostAcks, strayAcks, deferred, stale>>

\* hgsmiHostCommandQueryProcess without AssertReturnVoid
DrainRead_NoVoidCheck(t) ==
    /\ pc[t] = "read"
    /\ offset' = [offset EXCEPT ![t] = hgsmiGetHostBuffer]
    /\ HostAfterRead
    /\ pc' = [pc EXCEPT ![t] = "process"]
    /\ voidSeen' = [voidSeen EXCEPT ![t] = @ \/ hgsmiGetHostBuffer = HGSMIOFFSET_VOID]
    /\ UNCHANGED <<guestVars, lastComplete, cpu>>
    /\ UNCHANGED <<nextId, cmdKind, fHostCmdProcessing, ret, dispatched, hostAcks,
                   strayAcks, deferred>>

\* AssertReturnVoid leaving VBoxHGSMIProcessHostQueue itself, the guard still set
DrainRead_ReturnOnVoid(t) ==
    /\ pc[t] = "read"
    /\ offset' = [offset EXCEPT ![t] = hgsmiGetHostBuffer]
    /\ HostAfterRead
    /\ IF hgsmiGetHostBuffer = HGSMIOFFSET_VOID
       THEN /\ pc' = [pc EXCEPT ![t] = "idle"]
            /\ ret' = [ret EXCEPT ![t] = "drained"]
            /\ voidSeen' = [voidSeen EXCEPT ![t] = TRUE]
       ELSE /\ pc' = [pc EXCEPT ![t] = "process"]
            /\ ret' = ret
            /\ voidSeen' = voidSeen
    /\ UNCHANGED <<guestVars, lastComplete, cpu>>
    /\ UNCHANGED <<nextId, cmdKind, fHostCmdProcessing, dispatched, hostAcks,
                   strayAcks, deferred>>

\* hgsmiHostCommandQueryProcess, first half: offset = hgsmiGetHostBuffer(pCtx);
\* AssertReturnVoid(offset != HGSMIOFFSET_VOID);
DrainRead(t) ==
    /\ pc[t] = "read"
    /\ offset' = [offset EXCEPT ![t] = hgsmiGetHostBuffer]
    /\ HostAfterRead
    /\ IF hgsmiGetHostBuffer = HGSMIOFFSET_VOID
       THEN /\ pc' = [pc EXCEPT ![t] = "release"]
            /\ voidSeen' = [voidSeen EXCEPT ![t] = TRUE]
       ELSE /\ pc' = [pc EXCEPT ![t] = "process"]
            /\ voidSeen' = voidSeen
    /\ UNCHANGED <<guestVars, lastComplete, cpu>>
    /\ UNCHANGED <<nextId, cmdKind, fHostCmdProcessing, ret, dispatched, hostAcks,
                   strayAcks, deferred>>

\* hgsmiHostCommandQueryProcess, second half: hgsmiHostCmdProcess(pCtx, offset);
DrainProcess(t) ==
    /\ pc[t] = "process"
    /\ \E sync \in BOOLEAN : hgsmiHostCmdProcess(offset[t], sync)
    /\ pc' = [pc EXCEPT ![t] = "release"]
    /\ offset' = [offset EXCEPT ![t] = HGSMIOFFSET_VOID]
    /\ UNCHANGED <<guestVars, lastComplete, cpu>>
    /\ UNCHANGED <<hostFlags, hostQueue, nextId, cmdKind, fHostCmdProcessing, ret,
                   voidSeen, stale>>

\* the drain clearing the pending bit itself once it has handled a command
DrainRelease_ClearPending(t) ==
    /\ pc[t] = "release"
    /\ fHostCmdProcessing' = FALSE
    /\ hostFlags' = FALSE
    /\ pc' = [pc EXCEPT ![t] = "check"]
    /\ UNCHANGED <<guestVars, lastComplete, cpu>>
    /\ UNCHANGED <<hostQueue, nextId, cmdKind, offset, ret, voidSeen,
                   dispatched, hostAcks, strayAcks, deferred, stale>>

\* the loop as an if: one pass, then return
DrainRelease_NoRecheck(t) ==
    /\ pc[t] = "release"
    /\ fHostCmdProcessing' = FALSE
    /\ pc' = [pc EXCEPT ![t] = "idle"]
    /\ ret' = [ret EXCEPT ![t] = "drained"]
    /\ UNCHANGED <<guestVars, lastComplete, cpu>>
    /\ UNCHANGED <<hostFlags, hostQueue, nextId, cmdKind, offset, voidSeen,
                   dispatched, hostAcks, strayAcks, deferred, stale>>

\* ASMAtomicWriteBool(&pCtx->fHostCmdProcessing, false); and back to the loop condition
DrainRelease(t) ==
    /\ pc[t] = "release"
    /\ fHostCmdProcessing' = FALSE
    /\ pc' = [pc EXCEPT ![t] = "check"]
    /\ UNCHANGED <<guestVars, lastComplete, cpu>>
    /\ UNCHANGED <<hostFlags, hostQueue, nextId, cmdKind, offset, ret, voidSeen,
                   dispatched, hostAcks, strayAcks, deferred, stale>>

\* the host queues a command and sets the pending bit
HostEnqueue(kind) ==
    /\ nextId <= MaxCmds
    /\ cmdKind' = [cmdKind EXCEPT ![nextId] = kind]
    /\ hostQueue' = Append(hostQueue, nextId)
    /\ nextId' = nextId + 1
    /\ hostFlags' = TRUE
    /\ UNCHANGED <<guestVars, lastComplete, cpu>>
    /\ UNCHANGED <<fHostCmdProcessing, pc, offset, ret, voidSeen, dispatched, hostAcks,
                   strayAcks, deferred, stale>>

\* a handler that kept a command completes it: VBoxHGSMIHostCmdComplete(pCtx, pvMem)
HandlerComplete(pvMem) ==
    /\ pvMem \in deferred
    /\ SetHostSt(VBoxHGSMIHostCmdComplete([HostSt EXCEPT !.deferred = @ \ {pvMem}],
                                          pvMem, "handler"))
    /\ UNCHANGED <<guestVars, lastComplete, cpu>>
    /\ UNCHANGED <<hostFlags, hostQueue, nextId, cmdKind, fHostCmdProcessing, pc, offset,
                   ret, voidSeen, dispatched, stale>>

DrainNext ==
    \/ \E t \in Ctx : DrainCall(t)
    \/ \E t \in Ctx : DrainCheck(t)
    \/ \E t \in Ctx : DrainCas(t)
    \/ \E t \in Ctx : DrainRead(t)
    \/ \E t \in Ctx : DrainProcess(t)
    \/ \E t \in Ctx : DrainRelease(t)
    \/ \E kind \in CmdKinds : HostEnqueue(kind)
    \/ \E pvMem \in HostPayloadPtrs : HandlerComplete(pvMem)

DrainSpec == Init /\ [][DrainNext]_vars

(***************************************************************************)
(* Scheduling.  Contexts on different processors run side by side.  On one *)
(* processor they nest: a drain entered from a handler or an interrupt is  *)
(* a context of higher number, and the one it interrupted does not run     *)
(* before it has returned.  A context inside the drain that is not held up *)
(* in this way infinitely often takes its next step; nobody is obliged to  *)
(* call the drain.                                                         *)
(***************************************************************************)
Cpus == {1, 2}

\* the first context on the first processor, the others anywhere
CpuMaps == {m \in [Ctx -> Cpus] : m[1] = 1}

Preempted(t) == \E u \in Ctx : u > t /\ cpu[u] = cpu[t] /\ pc[u] # "idle"

SchedInit == InitState /\ cpu \in CpuMaps

SchedCall(t) == ~Preempted(t) /\ DrainCall(t)

SchedCheck(t) == ~Preempted(t) /\ DrainCheck(t)

SchedCas(t) == ~Preempted(t) /\ DrainCas(t)

SchedRead(t) == ~Preempted(t) /\ DrainRead(t)

SchedProcess(t) == ~Preempted(t) /\ DrainProcess(t)

SchedRelease(t) == ~Preempted(t) /\ DrainRelease(t)

SchedStep(t) ==
    SchedCheck(t) \/ SchedCas(t) \/ SchedRead(t) \/ SchedProcess(t) \/ SchedRelease(t)

SchedNext ==
    \/ \E t \in Ctx : SchedCall(t)
    \/ \E t \in Ctx : SchedCheck(t)
    \/ \E t \in Ctx : SchedCas(t)
    \/ \E t \in Ctx : SchedRead(t)
    \/ \E t \in Ctx : SchedProcess(t)
    \/ \E t \in Ctx : SchedRelease(t)
    \/ \E kind \in CmdKinds : HostEnqueue(kind)
    \/ \E pvMem \in HostPayloadPtrs : HandlerComplete(pvMem)

DrainFairSpec ==
    SchedInit /\ [][SchedNext]_vars /\ \A t \in Ctx : SF_vars(SchedStep(t))

(***************************************************************************)
(* VBoxHGSMIHostCmdComplete called by whoever holds a pointer: a handler   *)
(* with the payload it kept, or a caller with a pointer whose header lies   *)
(* before or behind the host area.                                         *)
(***************************************************************************)
CompletePtrs == HostPayloadPtrs \cup {HostBase + 1, HostBase + HostCbArea + HdrSize}

CompleteAny(pvMem) ==
    /\ pvMem \in CompletePtrs
    /\ \/ pvMem \in deferred
       \/ ~HGSMIAreaContainsPointer(HGSMIBufferHeaderFromData(pvMem))
    /\ \E st \in {VBoxHGSMIHostCmdComplete([HostSt EXCEPT !.deferred = @ \ {pvMem}],
                                            pvMem, "handler")} :
           /\ SetHostSt(st)
           /\ lastComplete' = [pvMem |-> pvMem, port |-> st.port,
                               silent |-> lastComplete.silent \/ st.port = <<>>]
    /\ UNCHANGED <<guestVars, cpu>>
    /\ UNCHANGED <<hostFlags, hostQueue, nextId, cmdKind, fHostCmdProcessing, pc, offset,
                   ret, voidSeen, dispatched, stale>>

\* one context drains the queue here: the completion does not depend on the guard
CompleteCtx == {1}

CompleteNext ==
    \/ \E t \in CompleteCtx : DrainCall(t)
    \/ \E t \in CompleteCtx : DrainCheck(t)
    \/ \E t \in CompleteCtx : DrainCas(t)
    \/ \E t \in CompleteCtx : DrainRead(t)
    \/ \E t \in CompleteCtx : DrainProcess(t)
    \/ \E t \in CompleteCtx : DrainRelease(t)
    \/ \E kind \in CmdKinds : HostEnqueue(kind)
    \/ \E pvMem \in CompletePtrs : CompleteAny(pvMem)

CompleteSpec == Init /\ [][CompleteNext]_vars

(***************************************************************************)
(* Properties of the host queue drain, checked under DrainSpec.            *)
(***************************************************************************)
PayloadOf(i) == HGSMIBufferDataFromPtr(HGSMIOffsetToPointer(CmdOff(i)))

BeingProcessed(i) == \E t \in Ctx : pc[t] = "process" /\ offset[t] = CmdOff(i)

AllReturned == \A t \in Ctx : pc[t] = "idle"

DispatchFails(i) == cmdKind[i] \in {"badoff", "nochan"}

\* the step is one of context t leaving position p
Leaves(t, p) == pc[t] = p /\ pc'[t] # p

DrainWrites(acks) == Cardinality({k \in 1..Len(acks) : acks[k] = "drain"})

\* C1: every command read from the receive port has its offset written to the host
\* port exactly once: no write no command accounts for, never two writes for one
\* command, none before the command is read, and the one write is missing only
\* while the drain is still dispatching the command or its handler has kept it to
\* complete later; the writer is the drain when dispatch fails, the handler otherwise.
C1_ExactlyOneCompletion ==
    /\ strayAcks = {}
    /\ \A i \in Cmd :
        /\ Len(hostAcks[i]) <= 1
        /\ i \notin ReadCmds => hostAcks[i] = <<>>
        /\ i \in ReadCmds =>
             /\ hostAcks[i] = <<>> <=> (BeingProcessed(i) \/ PayloadOf(i) \in deferred)
             /\ hostAcks[i] # <<>> =>
                  hostAcks[i] = IF DispatchFails(i) THEN <<"drain">> ELSE <<"handler">>

C1_Witness ==
    /\ AllReturned
    /\ deferred = {}
    /\ \E i, j \in Cmd :
        /\ cmdKind[i] = "ok" /\ hostAcks[i] = <<"handler">>
        /\ cmdKind[j] = "badoff" /\ hostAcks[j] = <<"drain">>

\* C2: with several contexts calling the drain, once all of them have returned and
\* the pending bit is clear, every command the host queued has been read from the
\* port and dispatched exactly once; no command is ever dispatched twice.
C2_DispatchedExactlyOnce ==
    /\ \A i \in Cmd : dispatched[i] <= 1
    /\ (AllReturned /\ ~hostFlags) =>
          \A i \in Cmd : i < nextId => (i \in ReadCmds /\ dispatched[i] = 1)

C2_Witness ==
    /\ AllReturned
    /\ ~hostFlags
    /\ nextId > 2
    /\ \A i \in Cmd : i < nextId => dispatched[i] = 1
    /\ \E t, u \in Ctx : t # u /\ ret[t] = "drained" /\ ret[u] = "drained"

\* C5: a context whose compare-and-swap finds the guard already set returns at
\* once: it reads nothing from the port, dispatches and acknowledges nothing, and
\* the guard stays set.
C5_BackOff ==
    [][\A t \in Ctx :
          (Leaves(t, "cas") /\ fHostCmdProcessing) =>
              /\ pc'[t] = "idle"
              /\ ret'[t] = "busy"
              /\ fHostCmdProcessing'
              /\ UNCHANGED <<hostQueue, hostFlags, offset, dispatched, hostAcks,
                             strayAcks, deferred>>]_vars

C5_Witness == \E t \in Ctx : pc[t] = "idle" /\ ret[t] = "busy" /\ fHostCmdProcessing

C7_NoReadAfterVoid ==
    [][\A t \in Ctx : voidSeen[t] => ~Leaves(t, "read")]_vars

\* C7, amended: a read of HGSMIOFFSET_VOID ends the pass: nothing is dispatched,
\* nothing is written to the host port, the guard is cleared, and the invocation
\* goes on to read the port again only if the loop condition finds the pending
\* bit set.
C7_VoidEndsPass ==
    [][\A t \in Ctx :
          /\ (Leaves(t, "read") /\ hgsmiGetHostBuffer = HGSMIOFFSET_VOID) =>
                /\ pc'[t] = "release"
                /\ UNCHANGED <<dispatched, hostAcks, strayAcks, deferred>>
          /\ (voidSeen[t] /\ Leaves(t, "release")) =>
                (pc'[t] = "check" /\ ~fHostCmdProcessing')
          /\ (voidSeen[t] /\ Leaves(t, "check") /\ ~hostFlags) => pc'[t] = "idle"]_vars

C7_Witness ==
    \E t \in Ctx : voidSeen[t] /\ pc[t] = "release" /\ offset[t] = HGSMIOFFSET_VOID

\* C8: an invocation entered with the pending bit clear returns without reading
\* the port, without touching the guard and without dispatching or acknowledging.
C8_NothingPending ==
    [][\A t \in Ctx :
          (Leaves(t, "enter") /\ ~hostFlags) =>
              /\ pc'[t] = "idle"
              /\ ret'[t] = "notPending"
              /\ UNCHANGED <<fHostCmdProcessing, hostQueue, hostFlags, offset, dispatched,
                             hostAcks, strayAcks, deferred>>]_vars

C8_Witness == \E t \in Ctx : pc[t] = "idle" /\ ret[t] = "notPending"

\* C9: when the dispatch of a read offset fails, the drain writes that offset to
\* the host port once, still holding the guard; when it succeeds the drain writes
\* nothing to the host port itself.
C9_DrainCompletesFailedDispatch ==
    [][\A t \in Ctx :
          Leaves(t, "process") =>
              /\ pc'[t] = "release"
              /\ fHostCmdProcessing'
              /\ strayAcks' = strayAcks
              /\ \A i \in Cmd :
                    DrainWrites(hostAcks'[i]) =
                        IF CmdOff(i) = offset[t] /\ i \in ReadCmds /\ DispatchFails(i)
                        THEN DrainWrites(hostAcks[i]) + 1
                        ELSE DrainWrites(hostAcks[i])]_vars

C9_Witness ==
    \E t \in Ctx, i \in Cmd :
        /\ pc[t] = "release"
        /\ fHostCmdProcessing
        /\ cmdKind[i] = "nochan"
        /\ hostAcks[i] = <<"drain">>

(***************************************************************************)
(* The guest operations as actions.                                        *)
(***************************************************************************)
G(replies, async) ==
    [heap |-> heap, devOwned |-> devOwned, cOnce |-> cOnce, testFailed |-> testFailed,
     testPassed |-> testPassed,
     writes |-> <<>>, sent |-> <<>>, log |-> <<>>, replies |-> replies, async |-> async]

Commit(g, op, arg, rc, value) ==
    /\ heap' = g.heap
    /\ devOwned' = g.devOwned
    /\ cOnce' = g.cOnce
    /\ testFailed' = g.testFailed
    /\ testPassed' = g.testPassed
    /\ last' = [op |-> op, arg |-> arg, rc |-> rc, writes |-> g.writes, sent |-> g.sent,
                log |-> g.log, value |-> value]
    /\ UNCHANGED <<drainVars, lastComplete, cpu>>
    /\ UNCHANGED queryVars

PwnSizes == 1..MaxReqSize
PwnOffsets == GuestOffBase..(GuestOffBase + GuestCbHeap + HdrSize)

\* header_size of the VDMA requests of pwn_ioctl, scaled to the model's heap
PwnHeaderSize(type) == IF type \in {1, 2} THEN 2 ELSE 1

\* pwn_ioctl, req->type 7: allocate
IoctlAlloc(size) ==
    /\ size \in PwnSizes
    /\ LET a == VBoxHGSMIBufferAlloc(G(<<>>, FALSE), size, HGSMI_CH_VBVA, VBVA_VDMA_CMD)
       IN Commit(a.g, "alloc", <<size>>, 0, a.p)

\* pwn_ioctl, req->type 8: submit
IoctlSubmit(off, async) ==
    /\ off \in PwnOffsets
    /\ LET s == VBoxHGSMIBufferSubmit(G(<<>>, async), off)
       IN Commit(s.g, "submit", <<off>>, 0, s.rc)

\* pwn_ioctl, req->type 9: free
IoctlFree(off) ==
    /\ off \in PwnOffsets
    /\ Commit(VBoxHGSMIBufferFree(G(<<>>, FALSE), off), "free", <<off>>, 0, 0)

\* pwn_ioctl, req->type 1, 2, 4, 5: a VDMA transfer command
IoctlTransfer(type, size, async) ==
    /\ size \in PwnSizes
    /\ LET cb == PwnHeaderSize(type) + size
           a == VBoxHGSMIBufferAlloc(G(<<>>, async), cb, HGSMI_CH_VBVA, VBVA_VDMA_CMD)
           s == VBoxHGSMIBufferSubmit(Store(a.g, a.p, <<type, size>>), a.p)
           g2 == VBoxHGSMIBufferFree(s.g, a.p)
       IN IF a.p = NULL THEN Commit(a.g, "transfer", <<type, size>>, -ENOMEM, 0)
          ELSE IF RT_FAILURE(s.rc) THEN Commit(g2, "transfer", <<type, size>>, -EFAULT, 0)
          ELSE IF type \in {1, 4, 5}
          THEN Commit(Loaded(g2, a.p), "transfer", <<type, size>>, 0, 0)
          ELSE Commit(g2, "transfer", <<type, size>>, 0, 0)

\* pwn_ioctl, req->type 3: a VBVA command with the caller's command code
IoctlCustom(size, u16Op, async, reply) ==
    /\ size \in PwnSizes
    /\ LET a == VBoxHGSMIBufferAlloc(G(<<reply>>, async), size, HGSMI_CH_VBVA, u16Op)
           s == VBoxHGSMIBufferSubmit(Store(a.g, a.p, NoData), a.p)
           g2 == VBoxHGSMIBufferFree(s.g, a.p)
       IN IF a.p = NULL THEN Commit(a.g, "custom", <<size, u16Op>>, -ENOMEM, 0)
          ELSE IF RT_FAILURE(s.rc) THEN Commit(g2, "custom", <<size, u16Op>>, -EFAULT, 0)
          ELSE Commit(g2, "custom", <<size, u16Op>>, 0, 0)

ConfIndices == {1, UINT32_MAX}
ConfDefaults == {5, UINT32_MAX}

\* a call of VBoxQueryConfHGSMIDef from outside, *pulValue being 0 before
QueryConf(u32Index, u32DefValue, reply1, reply2) ==
    /\ u32Index \in ConfIndices
    /\ LET r == VBoxQueryConfHGSMIDef(G(<<reply1, reply2>>, FALSE), u32Index,
                                      u32DefValue, 0)
       IN Commit(r.g, "query", <<u32Index, u32DefValue>>, r.rc, r.value)

\* the device completes a command it kept
HostComplete(off) ==
    /\ off \in devOwned
    /\ devOwned' = devOwned \ {off}
    /\ last' = NoOp
    /\ UNCHANGED <<heap, cOnce, testFailed, testPassed>>
    /\ UNCHANGED <<drainVars, lastComplete, cpu>>
    /\ UNCHANGED queryVars

GuestNext ==
    \/ \E size \in PwnSizes : IoctlAlloc(size)
    \/ \E off \in PwnOffsets, async \in BOOLEAN : IoctlSubmit(off, async)
    \/ \E off \in PwnOffsets : IoctlFree(off)
    \/ \E type \in {1, 2, 4, 5}, size \in PwnSizes, async \in BOOLEAN :
           IoctlTransfer(type, size, async)
    \/ \E size \in PwnSizes, u16Op \in {VBVA_QUERY_CONF32, VBVA_VDMA_CMD},
          async \in BOOLEAN, reply \in HostReplies : IoctlCustom(size, u16Op, async, reply)
    \/ \E u32Index \in ConfIndices, u32DefValue \in ConfDefaults,
          reply1 \in HostReplies, reply2 \in HostReplies :
           QueryConf(u32Index, u32DefValue, reply1, reply2)
    \/ \E off \in PwnOffsets : HostComplete(off)

GuestSpec == Init /\ [][GuestNext]_vars

(***************************************************************************)
(* The helpers as actions.  pwn_ioctl's allocate and free requests bring   *)
(* the heap into every state a helper can find it in.                      *)
(***************************************************************************)
FlagsOffsets == {0, 16}
CapsFlags == {0, 1}
ShapeFlags == {0, VBOX_MOUSE_POINTER_SHAPE}
ShapeDims == {1, 2, WrapHeight}
ShapeLengths == {8, 16, UINT32_MAX}
CursorCoords == {3}
VramSizes == {64, 100, 1024}
BaseMappings == {32, 512}

\* VBoxHGSMIReportFlagsLocation
ReportFlagsLocation(offLocation) ==
    /\ offLocation \in FlagsOffsets
    /\ \E r \in {vboxHGSMIReportFlagsLocation(G(<<>>, FALSE), offLocation)} :
           Commit(r.g, "flags", <<offLocation>>, r.rc, 0)

\* VBoxHGSMISendCapsInfo
SendCapsInfo(fCaps, reply) ==
    /\ fCaps \in CapsFlags
    /\ \E r \in {vboxHGSMISendCapsInfo(G(<<reply>>, FALSE), fCaps)} :
           Commit(r.g, "caps", <<fCaps>>, r.rc, 0)

SendHostCtxInfo(offVRAMFlagsLocation, fCaps, reply) ==
    /\ fCaps \in CapsFlags
    /\ \E r \in {VBoxHGSMISendHostCtxInfo(G(<<reply>>, FALSE), offVRAMFlagsLocation,
                                           fCaps, HostOffBase, HostCbArea)} :
           Commit(r.g, "hostctx", <<offVRAMFlagsLocation, fCaps>>, r.rc, 0)

UpdatePointerShape(fFlags, cWidth, cHeight, cbLength, reply) ==
    /\ fFlags \in ShapeFlags
    /\ \E r \in {VBoxHGSMIUpdatePointerShape(G(<<reply>>, FALSE), fFlags, 0, 0, cWidth,
                                              cHeight, cbLength)} :
           Commit(r.g, "shape", <<fFlags, cWidth, cHeight, cbLength>>, r.rc,
                  <<r.cbAlloc, r.cbCopied>>)

CursorPosition(fReportPosition, x, hasPx, hasPy, reply) ==
    /\ x \in CursorCoords
    /\ \E r \in {VBoxHGSMICursorPosition(G(<<reply>>, FALSE), fReportPosition, x, x,
                                          hasPx, hasPy, 0, 0)} :
           Commit(r.g, "cursor", <<fReportPosition, x, hasPx, hasPy>>, r.rc,
                  <<r.xHost, r.yHost>>)

GetHostAreaMapping(cbVRAM, offVRAMBaseMapping, reply1, reply2) ==
    /\ cbVRAM \in VramSizes
    /\ \E r \in {VBoxHGSMIGetHostAreaMapping(G(<<reply1, reply2>>, FALSE), cbVRAM,
                                              offVRAMBaseMapping)} :
           Commit(r.g, "hostarea", <<cbVRAM, offVRAMBaseMapping, reply1, reply2>>, r.rc,
                  <<r.offVRAMHostArea, r.cbHostArea>>)

HelperNext ==
    \/ \E size \in PwnSizes : IoctlAlloc(size)
    \/ \E off \in PwnOffsets : IoctlFree(off)
    \/ \E offLocation \in FlagsOffsets : ReportFlagsLocation(offLocation)
    \/ \E fCaps \in CapsFlags, reply \in HostRcs : SendCapsInfo(fCaps, reply)
    \/ \E offLocation \in FlagsOffsets, fCaps \in CapsFlags, reply \in HostRcs :
           SendHostCtxInfo(offLocation, fCaps, reply)
    \/ \E fFlags \in ShapeFlags, cWidth \in ShapeDims, cHeight \in ShapeDims,
          cbLength \in ShapeLengths, reply \in HostRcs :
           UpdatePointerShape(fFlags, cWidth, cHeight, cbLength, reply)
    \/ \E fReportPosition \in BOOLEAN, x \in CursorCoords, hasPx \in BOOLEAN,
          hasPy \in BOOLEAN, reply \in CursorReplies :
           CursorPosition(fReportPosition, x, hasPx, hasPy, reply)
    \/ \E cbVRAM \in VramSizes, offVRAMBaseMapping \in BaseMappings,
          reply1 \in HostReplies, reply2 \in HostReplies :
           GetHostAreaMapping(cbVRAM, offVRAMBaseMapping, reply1, reply2)
    \/ \E u32Index \in ConfIndices, u32DefValue \in ConfDefaults,
          reply1 \in HostReplies, reply2 \in HostReplies :
           QueryConf(u32Index, u32DefValue, reply1, reply2)

HelperSpec == Init /\ [][HelperNext]_vars

(***************************************************************************)
(* Overlapping calls of VBoxQueryConfHGSMIDef, one step per access to      *)
(* cOnce.  A context's stack is its outermost call and, above it, qdepth   *)
(* pairs of testQueryConf and the VBoxQueryConfHGSMI(UINT32_MAX) it calls. *)
(* The heap is used one call at a time: a frame's allocate, submit, read   *)
(* and free are one step.                                                  *)
(***************************************************************************)
\* a context calls VBoxQueryConfHGSMI(pCtx, u32Index, &ulValue)
QCall(t, u32Index) ==
    /\ qpc[t] = "idle"
    /\ qpc' = [qpc EXCEPT ![t] = "check"]
    /\ qdepth' = [qdepth EXCEPT ![t] = 0]
    /\ qarg' = [qarg EXCEPT ![t] = <<u32Index, UINT32_MAX>>]
    /\ qres' = [qres EXCEPT ![t] = [rc |-> VINF_SUCCESS, value |-> 0, cmds |-> 0]]
    /\ UNCHANGED <<heap, devOwned, cOnce, testFailed, testPassed, last>>
    /\ UNCHANGED <<drainVars, lastComplete, cpu>>

\* testQueryConf: if (cOnce) return VINF_SUCCESS;
QCheck(t) ==
    /\ qpc[t] = "check"
    /\ qpc' = [qpc EXCEPT ![t] = IF cOnce THEN "submit" ELSE "set"]
    /\ UNCHANGED <<qdepth, qarg, qres>>
    /\ UNCHANGED <<heap, devOwned, cOnce, testFailed, testPassed, last>>
    /\ UNCHANGED <<drainVars, lastComplete, cpu>>

\* testQueryConf calling VBoxQueryConfHGSMI without setting cOnce first
QSet_NoLatch(t) ==
    /\ qpc[t] = "set"
    /\ qdepth[t] < MaxDepth
    /\ cOnce' = cOnce
    /\ qdepth' = [qdepth EXCEPT ![t] = @ + 1]
    /\ qpc' = [qpc EXCEPT ![t] = "check"]
    /\ UNCHANGED <<qarg, qres>>
    /\ UNCHANGED <<heap, devOwned, testFailed, testPassed, last>>
    /\ UNCHANGED <<drainVars, lastComplete, cpu>>

\* testQueryConf: cOnce = true; and the call of VBoxQueryConfHGSMI(pCtx, UINT32_MAX, ..)
QSet(t) ==
    /\ qpc[t] = "set"
    /\ qdepth[t] < MaxDepth
    /\ cOnce' = TRUE
    /\ qdepth' = [qdepth EXCEPT ![t] = @ + 1]
    /\ qpc' = [qpc EXCEPT ![t] = "check"]
    /\ UNCHANGED <<qarg, qres>>
    /\ UNCHANGED <<heap, devOwned, testFailed, testPassed, last>>
    /\ UNCHANGED <<drainVars, lastComplete, cpu>>

\* the request of the frame on top of the stack of t
QFrameArg(t) == IF qdepth[t] = 0 THEN qarg[t] ELSE <<UINT32_MAX, UINT32_MAX>>

\* VBoxQueryConfHGSMIDef after testQueryConf has returned success: allocate, fill,
\* submit, read the value back, free, return
QSubmit(t, reply) ==
    /\ qpc[t] = "submit"
    /\ \E a \in {VBoxHGSMIBufferAlloc(G(<<reply>>, FALSE), CbConf32, HGSMI_CH_VBVA,
                                       VBVA_QUERY_CONF32)} :
       \E s \in {VBoxHGSMIBufferSubmit(Store(a.g, a.p, QFrameArg(t)), a.p)} :
       \E r \in {IF a.p = NULL THEN [g |-> a.g, rc |-> VERR_NO_MEMORY, value |-> 0]
                 ELSE IF RT_SUCCESS(s.rc)
                 THEN [g |-> VBoxHGSMIBufferFree(Loaded(s.g, a.p), a.p), rc |-> s.rc,
                       value |-> ReadData(s.g.heap, a.p)[2]]
                 ELSE [g |-> VBoxHGSMIBufferFree(s.g, a.p), rc |-> s.rc, value |-> 0]} :
          /\ heap' = r.g.heap
          /\ devOwned' = r.g.devOwned
          /\ qres' = [qres EXCEPT ![t] = [rc |-> r.rc, value |-> r.value,
                                          cmds |-> @.cmds + Len(r.g.writes)]]
    /\ qpc' = [qpc EXCEPT ![t] = IF qdepth[t] = 0 THEN "idle" ELSE "back"]
    /\ UNCHANGED <<qdepth, qarg>>
    /\ UNCHANGED <<cOnce, testFailed, testPassed, last>>
    /\ UNCHANGED <<drainVars, lastComplete, cpu>>

\* testQueryConf once its query has returned: the test passes and the frame below
\* goes on to its own request, or cOnce = false and the failure is returned
QBack(t) ==
    /\ qpc[t] = "back"
    /\ qdepth' = [qdepth EXCEPT ![t] = @ - 1]
    /\ IF RT_SUCCESS(qres[t].rc) /\ qres[t].value = UINT32_MAX
       THEN /\ qpc' = [qpc EXCEPT ![t] = "submit"]
            /\ testPassed' = TRUE
            /\ UNCHANGED <<cOnce, testFailed, qres>>
       ELSE /\ cOnce' = FALSE
            /\ testFailed' = TRUE
            /\ qres' = [qres EXCEPT ![t] =
                           [rc |-> IF RT_FAILURE(qres[t].rc) THEN qres[t].rc
                                   ELSE VERR_INTERNAL_ERROR,
                            value |-> 0,
                            cmds |-> @.cmds]]
            /\ qpc' = [qpc EXCEPT ![t] = IF qdepth[t] = 1 THEN "idle" ELSE "back"]
            /\ UNCHANGED testPassed
    /\ UNCHANGED qarg
    /\ UNCHANGED <<heap, devOwned, last>>
    /\ UNCHANGED <<drainVars, lastComplete, cpu>>

QueryNext ==
    \/ \E t \in Ctx, u32Index \in ConfIndices : QCall(t, u32Index)
    \/ \E t \in Ctx : QCheck(t)
    \/ \E t \in Ctx : QSet(t)
    \/ \E t \in Ctx, reply \in HostReplies : QSubmit(t, reply)
    \/ \E t \in Ctx : QBack(t)

QuerySpec == Init /\ [][QueryNext]_vars

(***************************************************************************)
(* Calls of VBoxQueryConfHGSMI that do not overlap: a call begins only     *)
(* when no other is under way.  A call under way takes its next step.      *)
(***************************************************************************)
SeqCall(t, u32Index) ==
    /\ \A u \in Ctx : qpc[u] = "idle"
    /\ QCall(t, u32Index)

SeqStep(t) == QCheck(t) \/ QSet(t) \/ (\E reply \in HostReplies : QSubmit(t, reply)) \/ QBack(t)

SeqQueryNext ==
    \/ \E t \in Ctx, u32Index \in ConfIndices : SeqCall(t, u32Index)
    \/ \E t \in Ctx : QCheck(t)
    \/ \E t \in Ctx : QSet(t)
    \/ \E t \in Ctx, reply \in HostReplies : QSubmit(t, reply)
    \/ \E t \in Ctx : QBack(t)

SeqQuerySpec == Init /\ [][SeqQueryNext]_vars /\ \A t \in Ctx : WF_vars(SeqStep(t))

Next == DrainNext \/ SchedNext \/ CompleteNext \/ GuestNext \/ HelperNext \/ QueryNext \/ SeqQueryNext

Spec == Init /\ [][Next]_vars


(***************************************************************************)
(* Properties of the guest operations, checked under GuestSpec.            *)
(***************************************************************************)
SelfTestData == <<UINT32_MAX, UINT32_MAX>>

\* C3: no buffer is freed while the device owns it: every offset the device has
\* been given and has not completed is still the header of a live allocation.
C3_NoFreeWhileDeviceOwned == \A off \in devOwned : BufAt(heap, off) # {}

\* C4: VBoxHGSMIBufferSubmit on a pointer whose buffer offset is HGSMIOFFSET_VOID
\* returns VERR_INVALID_PARAMETER and writes nothing to the guest port; on any
\* other pointer it writes that offset to the port once and returns VINF_SUCCESS;
\* either way the set of live allocations is as before.
C4_SubmitContract ==
    [][last'.op = "submit" =>
          LET offBuffer == HGSMIHeapBufferOffset(last'.arg[1])
          IN /\ Live(heap') = Live(heap)
             /\ IF offBuffer = HGSMIOFFSET_VOID
                THEN last'.value = VERR_INVALID_PARAMETER /\ last'.writes = <<>>
                ELSE last'.value = VINF_SUCCESS /\ last'.writes = <<offBuffer>>]_vars

C4_Witness ==
    /\ last.op = "submit"
    /\ last.value = VERR_INVALID_PARAMETER
    /\ last.writes = <<>>
    /\ heap # {}

\* C10 as claimed: once a self-test has failed, every later configuration query
\* fails and issues nothing but (at most) a self-test.
C10_NoRetryAfterFailure ==
    [][(testFailed /\ last'.op = "query") =>
          (RT_FAILURE(last'.rc) /\ Len(last'.sent) <= 1)]_vars

\* C10, amended: a failed self-test fails the call that ran it without issuing
\* the caller's query and leaves the latch clear, so that every later call runs
\* the self-test again before anything else; the latch is set, and the caller's
\* query issued, only by a call whose own self-test came back with the sentinel.
C10_FailedSelfTestBlocksQuery ==
    [][(~cOnce /\ last'.op = "query") =>
          /\ Len(last'.sent) >= 1 => last'.sent[1].data = SelfTestData
          /\ ~cOnce' => /\ testFailed'
                        /\ RT_FAILURE(last'.rc)
                        /\ Len(last'.sent) <= 1
          /\ cOnce' => /\ Len(last'.sent) >= 1
                       /\ last'.sent[1].ans = SelfTestData]_vars

C10_Witness ==
    /\ last.op = "query"
    /\ last.arg[1] # UINT32_MAX
    /\ testFailed
    /\ ~cOnce
    /\ last.rc = VERR_INTERNAL_ERROR
    /\ Len(last.sent) = 1

LogCount(log, e) == Cardinality({k \in 1..Len(log) : log[k][1] = e})

\* the request a call of VBoxQueryConfHGSMIDef makes for its caller
OwnQuery(l) == <<l.arg[1], l.arg[2]>>

ConfHeapFull == HGSMIHeapAlloc(heap, CbConf32, HGSMI_CH_VBVA, VBVA_QUERY_CONF32) = NULL

\* C11: a call of VBoxQueryConfHGSMIDef whose self-test fails returns an error and
\* makes no request of its own: when the self-test query itself fails (no memory
\* for its buffer) the call returns that status and nothing at all is allocated
\* or submitted; when the self-test comes back with a value other than the
\* sentinel the call returns VERR_INTERNAL_ERROR and the self-test's buffer is the
\* only one allocated and submitted; in both cases the caller's value and the
\* live allocations are as before.
C11_SelfTestFailureFailsCall ==
    [][(~cOnce /\ last'.op = "query") =>
          LET l == last'
              mismatch == Len(l.sent) >= 1 /\ l.sent[1].ans[2] # UINT32_MAX
          IN /\ ConfHeapFull =>
                   /\ l.rc = VERR_NO_MEMORY
                   /\ l.sent = <<>>
                   /\ l.log = <<>>
             /\ mismatch =>
                   /\ l.rc = VERR_INTERNAL_ERROR
                   /\ Len(l.sent) = 1
                   /\ l.sent[1].data = SelfTestData
                   /\ LogCount(l.log, "alloc") = 1
                   /\ LogCount(l.log, "port") = 1
             /\ (ConfHeapFull \/ mismatch) =>
                   /\ l.value = 0
                   /\ Live(heap') = Live(heap)
                   /\ ~cOnce']_vars

C11_Witness ==
    /\ last.op = "query"
    /\ last.arg[1] # UINT32_MAX
    /\ last.rc = VERR_NO_MEMORY
    /\ last.log = <<>>
    /\ ~cOnce
    /\ testFailed

C14_QueryResult ==
    [][(last'.op = "query" /\ RT_SUCCESS(last'.rc)) =>
          LET l == last'
              n == Len(l.sent)
          IN /\ n = IF cOnce THEN 1 ELSE 2
             /\ l.sent[n].op = VBVA_QUERY_CONF32
             /\ l.sent[n].data = OwnQuery(l)
             /\ l.sent[n].ans[1] = l.arg[1]
             /\ l.value = l.sent[n].ans[2]
             /\ l.rc = VINF_SUCCESS]_vars

C14_Witness ==
    /\ last.op = "query"
    /\ RT_SUCCESS(last.rc)
    /\ last.arg = <<1, 5>>
    /\ Len(last.sent) = 2
    /\ last.sent[2].data = <<1, 5>>
    /\ last.value = 0

(***************************************************************************)
(* Properties of the helpers, checked under HelperSpec.                    *)
(***************************************************************************)
HelperOps == {"query", "flags", "caps", "hostctx", "shape", "cursor", "hostarea"}

\* no room in the heap for a payload of cbData units
HeapFullFor(cbData) == HGSMIHeapAlloc(heap, cbData, HGSMI_CH_VBVA, 0) = NULL

IsCmd(c, u8Ch, u16Op, data) == c.ch = u8Ch /\ c.op = u16Op /\ c.data = data

\* C15: VBoxHGSMISendHostCtxInfo submits the flags location first and each later
\* command only if all before it succeeded: nothing at all when the flags
\* location cannot be allocated; the capabilities second, and only when fCaps is
\* not zero; the host area last, and only when the capabilities, if sent, came
\* back with a success code; the call returns the status of the first step that
\* failed, VINF_SUCCESS when none did.
C15_SetupOrder ==
    [][last'.op = "hostctx" =>
          LET l == last'
              n == Len(l.sent)
              fCaps == l.arg[2]
              area == <<HostOffBase, HostCbArea>>
          IN IF HeapFullFor(CbLocation)
             THEN l.rc = VERR_NO_MEMORY /\ l.sent = <<>>
             ELSE /\ n >= 2
                  /\ IsCmd(l.sent[1], HGSMI_CH_HGSMI, HGSMI_CC_HOST_FLAGS_LOCATION,
                           <<l.arg[1], CbHostFlags>>)
                  /\ \A k \in 2..n : l.sent[k].ch = HGSMI_CH_VBVA
                  /\ IF fCaps = 0
                     THEN /\ n = 2
                          /\ IsCmd(l.sent[2], HGSMI_CH_VBVA, VBVA_INFO_HEAP, area)
                          /\ l.rc = VINF_SUCCESS
                     ELSE /\ IsCmd(l.sent[2], HGSMI_CH_VBVA, VBVA_INFO_CAPS,
                                   <<VERR_NOT_IMPLEMENTED, fCaps>>)
                          /\ IF RT_SUCCESS(l.sent[2].ans[1])
                             THEN /\ n = 3
                                  /\ IsCmd(l.sent[3], HGSMI_CH_VBVA, VBVA_INFO_HEAP, area)
                                  /\ l.rc = VINF_SUCCESS
                             ELSE /\ n = 2
                                  /\ l.rc = l.sent[2].ans[1]]_vars

C15_Witness ==
    /\ last.op = "hostctx"
    /\ last.arg[2] # 0
    /\ Len(last.sent) = 2
    /\ last.sent[2].op = VBVA_INFO_CAPS
    /\ last.rc = VERR_INVALID_PARAMETER

\* C16: the capability report returns the result field as it stands after the
\* submit.  The field is VERR_NOT_IMPLEMENTED when the command is submitted, so
\* that is the result when the host leaves the payload alone; whatever code the
\* host writes is the result otherwise.  The field is read only after the port
\* write, and without a buffer the result is VERR_NO_MEMORY and nothing is read.
C16_CapsResult ==
    [][last'.op = "caps" =>
          LET l == last'
          IN IF HeapFullFor(CbCaps)
             THEN l.rc = VERR_NO_MEMORY /\ l.sent = <<>> /\ LogCount(l.log, "load") = 0
             ELSE /\ Len(l.sent) = 1
                  /\ IsCmd(l.sent[1], HGSMI_CH_VBVA, VBVA_INFO_CAPS,
                           <<VERR_NOT_IMPLEMENTED, l.arg[1]>>)
                  /\ l.rc = l.sent[1].ans[1]
                  /\ l.sent[1].ans = l.sent[1].data => l.rc = VERR_NOT_IMPLEMENTED
                  /\ \A k \in 1..Len(l.log) :
                        l.log[k][1] = "load" =>
                            \E j \in 1..(k - 1) : l.log[j][1] = "port"]_vars

C16_Witness ==
    /\ last.op = "caps"
    /\ last.rc = VERR_NOT_IMPLEMENTED
    /\ Len(last.sent) = 1
    /\ last.sent[1].ans = last.sent[1].data

\* C17: no allocation or submission failure is swallowed: a helper that finds no
\* room for its buffer returns VERR_NO_MEMORY, having written nothing to the port
\* and freed nothing, and a caller that is handed a failure acts on it or hands
\* it on: VBoxHGSMIGetHostAreaMapping, whose query found no room for its buffer,
\* does not report what it reports for a host without a heap area.
C17_FailuresReturned ==
    [][/\ (last'.op \in {"flags", "caps", "hostctx", "query"} /\ HeapFullFor(CbLocation)) =>
             /\ last'.rc = VERR_NO_MEMORY
             /\ last'.writes = <<>>
             /\ LogCount(last'.log, "free") = 0
       /\ (last'.op = "hostarea" /\ last'.rc = VERR_NO_MEMORY) =>
             last'.value # <<last'.arg[2], 0>>]_vars

\* the allocations and frees of a log pair up: each buffer allocated is freed,
\* once, before the next is allocated, and nothing else is freed
FreedOnce(log) ==
    LET af == SelectSeq(log, LAMBDA e : e[1] \in {"alloc", "free"})
    IN /\ Len(af) % 2 = 0
       /\ \A i \in 1..Len(af) :
             IF i % 2 = 1 THEN af[i][1] = "alloc" ELSE af[i] = <<"free", af[i - 1][2]>>

StoresBeforePort(log) ==
    \A k \in 1..Len(log) :
        log[k][1] = "port" =>
            LET pv == log[k][2] + HdrSize
            IN /\ \E j \in 1..(k - 1) :
                     /\ log[j] = <<"store", pv>>
                     /\ \A i \in j..k : log[i] # <<"free", pv>>
               /\ \A j \in (k + 1)..Len(log) :
                     log[j] = <<"store", pv>> =>
                         \E i \in (k + 1)..(j - 1) : log[i] = <<"free", pv>>

\* C20: in every helper the request fields of a payload are written before the
\* port write that submits it, and the guest writes nothing to the payload from
\* that port write until it has freed the buffer.
C20_WritesBeforeDoorbell ==
    [][last'.op \in HelperOps => StoresBeforePort(last'.log)]_vars

C20_Witness ==
    /\ last.op = "shape"
    /\ HasShape(last.arg[1])
    /\ last.rc = VINF_SUCCESS
    /\ LogCount(last.log, "store") = 2
    /\ LogCount(last.log, "port") = 1
    /\ last.log[Len(last.log)][1] = "free"

(***************************************************************************)
(* Properties of overlapping configuration queries, checked under          *)
(* QuerySpec.                                                              *)
(***************************************************************************)
\* the step is context t submitting the query of its outermost call
OwnSubmit(t) == qpc[t] = "submit" /\ qdepth[t] = 0 /\ qpc'[t] # "submit"

\* C12: no call submits the query its caller asked for before some self-test
\* query has been submitted and has come back successfully with UINT32_MAX.
C12_SelfTestBeforeQuery ==
    [][\A t \in Ctx : OwnSubmit(t) => testPassed]_vars

(***************************************************************************)
(* Properties of VBoxHGSMIHostCmdComplete, checked under CompleteSpec.     *)
(***************************************************************************)
\* command i was read at its offset and its payload pointer went to a handler
DispatchedTo(i, pvMem) ==
    /\ i \in ReadCmds
    /\ dispatched[i] >= 1
    /\ HGSMIBufferProcess(CmdOff(i)) = VINF_SUCCESS
    /\ PayloadOf(i) = pvMem

\* the header in front of pvMem lies outside the host area
HeaderOutside(pvMem) ==
    \/ pvMem - HdrSize < HostBase
    \/ pvMem - HdrSize >= HostBase + HostCbArea

\* C19: VBoxHGSMIHostCmdComplete called with the payload pointer dispatched for
\* a command read at offset x writes exactly x to the host port, once; called
\* with a pointer whose header is outside the host area it writes nothing.
C19_CompletionRoundTrip ==
    [][\A pvMem \in CompletePtrs : CompleteAny(pvMem) =>
          /\ \A i \in Cmd : DispatchedTo(i, pvMem) =>
                 /\ lastComplete'.port = <<CmdOff(i)>>
                 /\ hostAcks' = [hostAcks EXCEPT ![i] = Append(@, "handler")]
                 /\ strayAcks' = strayAcks
          /\ HeaderOutside(pvMem) =>
                 /\ lastComplete'.port = <<>>
                 /\ hostAcks' = hostAcks
                 /\ strayAcks' = strayAcks]_vars

\* after a call that wrote nothing, a kept command was completed with its own
\* offset
C19_Witness ==
    /\ lastComplete.silent
    /\ \E i \in Cmd : /\ DispatchedTo(i, lastComplete.pvMem)
                      /\ lastComplete.port = <<CmdOff(i)>>
                      /\ hostAcks[i] = <<"handler">>

(***************************************************************************)
(* Properties of the reentrancy guard, checked under DrainSpec.            *)
(***************************************************************************)
\* context t is between its successful compare-and-swap and its clearing write
InCritical(t) == pc[t] \in {"read", "process", "release"}

\* C24: at most one context is between a successful compare-and-swap of
\* fHostCmdProcessing and the write that clears it, so no two contexts read the
\* receive port or dispatch at the same time.
C24_MutualExclusion == Cardinality({t \in Ctx : InCritical(t)}) <= 1

\* one context is dispatching while another has tried the guard and gone back
C24_Witness ==
    \E t, u \in Ctx :
        /\ t # u
        /\ pc[t] = "process"
        /\ pc[u] = "idle"
        /\ ret[u] = "busy"

\* C25: a drain that acquired the guard clears it before it looks at the pending
\* bit again or returns, on the path of a dispatched command, of a failed
\* dispatch and of HGSMIOFFSET_VOID alike; the guard is set only while some
\* context is inside the critical section.
C25_GuardReleased ==
    /\ [](fHostCmdProcessing => \E t \in Ctx : InCritical(t))
    /\ [][\A t \in Ctx :
             (InCritical(t) /\ ~InCritical(t)') =>
                 (pc[t] = "release" /\ pc'[t] = "check" /\ ~fHostCmdProcessing')]_vars

\* all contexts are outside, the guard is clear, and the three paths were taken:
\* a handled command, a failed dispatch and a read of HGSMIOFFSET_VOID
C25_Witness ==
    /\ \A t \in Ctx : ~InCritical(t)
    /\ ~fHostCmdProcessing
    /\ \E t \in Ctx : voidSeen[t]
    /\ \E i, j \in Cmd : /\ cmdKind[i] = "ok" /\ dispatched[i] = 1
                         /\ DispatchFails(j) /\ dispatched[j] = 1

(***************************************************************************)
(* Properties of the host flags word, checked under DrainSpec.             *)
(***************************************************************************)
\* the step is one in which the host acts: it queues a command, or it hands one
\* out on a read of the receive port
HostActs == hostQueue' # hostQueue

\* C23: the guest never writes the host flags word: the commands-pending bit
\* changes only in a step in which the host queues a command or hands one out,
\* and then to what the host's queue says; the loop condition, the
\* compare-and-swap, the dispatch, the completion notification and the clearing
\* of the guard leave it as it is.
C23_FlagsHostOnly ==
    [][/\ hostFlags' # hostFlags => (HostActs /\ hostFlags' = (hostQueue' # <<>>))
       /\ \A t \in Ctx :
             (Leaves(t, "enter") \/ Leaves(t, "check") \/ Leaves(t, "cas")
                \/ Leaves(t, "process") \/ Leaves(t, "release")) =>
                 hostFlags' = hostFlags
       /\ (hostAcks' # hostAcks \/ strayAcks' # strayAcks) => hostFlags' = hostFlags]_vars

\* a drain has handled a command and returned while the host still has one
\* queued: the bit is still set
C23_Witness ==
    /\ hostFlags
    /\ hostQueue # <<>>
    /\ \E t \in Ctx : pc[t] = "idle" /\ ret[t] = "busy"
    /\ \E i \in Cmd : hostAcks[i] # <<>>

(***************************************************************************)
(* Termination of the drain, checked under DrainFairSpec.                  *)
(***************************************************************************)
\* C21: every invocation of VBoxHGSMIProcessHostQueue returns, whether the
\* other contexts run beside it on other processors or it has interrupted one
\* of them that holds the guard: it does not wait for the guard.
C21_DrainReturns == \A t \in Ctx : (pc[t] # "idle") ~> (pc[t] = "idle")

\* the host has queued all it will, a nested drain found the guard taken and
\* went back, the interrupted one drained the queue, and all have returned
C21_Witness ==
    /\ AllReturned
    /\ \A t \in Ctx : cpu[t] = 1
    /\ ~hostFlags
    /\ ~fHostCmdProcessing
    /\ nextId = MaxCmds + 1
    /\ \E t, u \in Ctx : t < u /\ ret[t] = "drained" /\ ret[u] = "busy"

(***************************************************************************)
(* Properties of the guest heap, checked under GuestSpec.                  *)
(***************************************************************************)
\* the units a live allocation holds: its header and its payload
Held(a) == a.hdr..(a.hdr + HdrSize + a.cb - 1)

\* C22: no two live allocations overlap in the guest heap area, and every live
\* allocation lies wholly inside the area, whatever was allocated and freed
\* before.
C22_NoOverlap ==
    /\ \A a, b \in heap : a # b => Held(a) \cap Held(b) = {}
    /\ \A a \in heap : Held(a) \subseteq GuestOffBase..(GuestOffBase + GuestCbHeap - 1)

\* the last allocation took the lowest block while a block above it is live: the
\* lowest block had been allocated and freed before
C22_Witness ==
    /\ last.op = "alloc"
    /\ last.value = GuestOffBase + HdrSize
    /\ \E a, b \in heap : a.hdr = GuestOffBase /\ b.hdr > a.hdr

(***************************************************************************)
(* Properties of the order of payload accesses, checked under GuestSpec.   *)
(***************************************************************************)
\* no load from or store to a payload follows the free of its buffer, unless
\* the buffer has been allocated again in between
NoAccessAfterFree(log) ==
    \A k \in 1..Len(log) :
        log[k][1] = "free" =>
            \A j \in (k + 1)..Len(log) :
                (log[j][1] \in {"load", "store"} /\ log[j][2] = log[k][2]) =>
                    \E i \in (k + 1)..(j - 1) : log[i] = <<"alloc", log[k][2]>>

\* C26: no request path reads from or writes to a command payload after it has
\* freed the buffer.
C26_NoUseAfterFree == NoAccessAfterFree(last.log)

(***************************************************************************)
(* Properties of calls of the configuration query that do not overlap,     *)
(* checked under SeqQuerySpec.                                             *)
(***************************************************************************)
\* C27: a call of VBoxQueryConfHGSMIDef that overlaps no other nests at most
\* one self-test query, whose own testQueryConf finds the latch set; it submits
\* at most two commands; and it returns.
C27_RecursionBounded ==
    /\ [](\A t \in Ctx : /\ qdepth[t] <= 1
                         /\ qres[t].cmds <= 2
                         /\ (qdepth[t] = 1 /\ qpc[t] \in {"check", "submit"}) => cOnce)
    /\ \A t \in Ctx : (qpc[t] # "idle") ~> (qpc[t] = "idle")

\* a call has returned with its self-test and its own query submitted
C27_Witness ==
    \E t \in Ctx :
        /\ qpc[t] = "idle"
        /\ qres[t].cmds = 2
        /\ RT_SUCCESS(qres[t].rc)
        /\ testPassed

(***************************************************************************)
(* Properties of the output parameters, checked under HelperSpec.          *)
(***************************************************************************)
\* C28: output parameters are written only on success.  A call of
\* VBoxQueryConfHGSMIDef that fails leaves *pulValue as it was (0 before the
\* call).  VBoxHGSMICursorPosition leaves *pxHost and *pyHost as they were (0)
\* when it fails, writes nothing for a pointer that is not given, and for a
\* pointer that is given stores the field as it stood after the submit.
C28_OutputsOnSuccessOnly ==
    [][/\ (last'.op = "query" /\ RT_FAILURE(last'.rc)) => last'.value = 0
       /\ last'.op = "cursor" =>
             LET l == last'
                 n == Len(l.sent)
             IN /\ RT_FAILURE(l.rc) => (l.value = <<0, 0>> /\ l.sent = <<>>)
                /\ ~l.arg[3] => l.value[1] = 0
                /\ ~l.arg[4] => l.value[2] = 0
                /\ (RT_SUCCESS(l.rc) /\ l.arg[3]) => l.value[1] = l.sent[n].ans[2]
                /\ (RT_SUCCESS(l.rc) /\ l.arg[4]) => l.value[2] = l.sent[n].ans[3]
                /\ LogCount(l.log, "load") =
                      IF RT_FAILURE(l.rc) THEN 0
                      ELSE (IF l.arg[3] THEN 1 ELSE 0) + (IF l.arg[4] THEN 1 ELSE 0)]_vars

\* a query has failed its self-test, and a cursor report with pxHost given and
\* pyHost not has stored the host's x and nothing else
C28_Witness ==
    /\ testFailed
    /\ last.op = "cursor"
    /\ RT_SUCCESS(last.rc)
    /\ last.arg[3] /\ ~last.arg[4]
    /\ last.value = <<7, 0>>


\* the largest size VBoxHGSMIGetHostAreaMapping reports for a VRAM size: the
\* cap of lines 840-846, rounded up as in line 852
HostAreaCap(cbVRAM) ==
    LET cbMax0 == cbVRAM \div 4
        cbMax == IF cbMax0 >= AdapterInfoSize THEN cbMax0 - AdapterInfoSize ELSE cbMax0
    IN ((cbMax + (AreaAlign - 1)) \div AreaAlign) * AreaAlign

\* the host's answer to the heap size query of a VBoxHGSMIGetHostAreaMapping
\* step: the first reply when the self-test had run before (once), the second
\* after the self-test of this call; an untouched buffer holds the default
\* UINT32_MAX of VBoxQueryConfHGSMI (line 998)
HostHeapSize(l, once) ==
    LET reply == IF once THEN l.arg[3] ELSE l.arg[4]
    IN IF reply = NoReply THEN UINT32_MAX ELSE reply

\* the outputs of a VBoxHGSMIGetHostAreaMapping step
HostAreaOff(l) == l.value[1]
HostAreaCb(l) == l.value[2]

\* C29 (as amended): VBoxHGSMIGetHostAreaMapping reports a size that is a
\* multiple of the alignment and at most the rounded cap for the VRAM size, and
\* an offset with offVRAMHostArea + cbHostArea == offVRAMBaseMapping modulo the
\* word size; the sum does not wrap (cbHostArea <= offVRAMBaseMapping) whenever
\* the base mapping is at least the rounded cap, and when the query fails or the
\* host reports 0 the result is size 0 at the base mapping.
C29_HostAreaArithmetic ==
    [][last'.op = "hostarea" =>
          /\ Word(HostAreaOff(last') + HostAreaCb(last')) = last'.arg[2]
          /\ HostAreaCb(last') % AreaAlign = 0
          /\ HostAreaCb(last') <= HostAreaCap(last'.arg[1])
          /\ last'.arg[2] >= HostAreaCap(last'.arg[1]) =>
                /\ HostAreaCb(last') <= last'.arg[2]
                /\ HostAreaOff(last') + HostAreaCb(last') = last'.arg[2]
          /\ (last'.rc # VINF_SUCCESS \/ HostHeapSize(last', cOnce) = 0) =>
                /\ HostAreaCb(last') = 0
                /\ HostAreaOff(last') = last'.arg[2]]_vars

\* a host area of positive size that was rounded up and ends exactly at the
\* base mapping, starting at offset 0
C29_Witness ==
    /\ last.op = "hostarea"
    /\ last.rc = VINF_SUCCESS
    /\ last.arg[1] = 100
    /\ last.arg[2] = 32
    /\ last.value = <<0, 32>>

\* C29 as stated: the reported host area always ends at the base mapping
\* without wrap-around
C29_NoWrapAround ==
    last.op = "hostarea" =>
        /\ HostAreaCb(last) <= last.arg[2]
        /\ HostAreaOff(last) + HostAreaCb(last) = last.arg[2]


\* the shape size a VBoxHGSMIUpdatePointerShape step computed from its arguments
ShapeStepCbData(l) == IF HasShape(l.arg[1]) THEN ShapeCbData(l.arg[2], l.arg[3]) ELSE 0

\* the bytes the buffer of a VBoxHGSMIUpdatePointerShape step holds behind the
\* fixed fields, and the bytes the step copied there
ShapeSpace(l) == IF l.value[1] >= CbShapeFixed THEN l.value[1] - CbShapeFixed ELSE 0
ShapeCopied(l) == l.value[2]

\* C30: in VBoxHGSMIUpdatePointerShape a request whose computed cbData exceeds
\* cbLength is rejected with VERR_INVALID_PARAMETER before any allocation or
\* port write; otherwise the pixel bytes copied exceed neither cbLength nor the
\* space allocated behind the fixed fields, and are none without the SHAPE flag.
C30_CopyWithinBuffer ==
    [][last'.op = "shape" =>
          IF ShapeStepCbData(last') > last'.arg[4]
          THEN /\ last'.rc = VERR_INVALID_PARAMETER
               /\ last'.log = <<>>
               /\ last'.writes = <<>>
          ELSE /\ ShapeCopied(last') <= last'.arg[4]
               /\ LogCount(last'.log, "alloc") = 1 => ShapeCopied(last') <= ShapeSpace(last')
               /\ ~HasShape(last'.arg[1]) => ShapeCopied(last') = 0]_vars

====
